---- MODULE Spec2Model ----
(***************************************************************************)
(* Two-party masked protocol (PPMLAC) of MP-SPDZ: the multiplication       *)
(* protocol PPMLACProtocol, the opening facility PPMLACOutput, the private *)
(* input facility PPMLACInput, the preprocessing PPMLACPrep, and the       *)
(* emulation protocol FakeProtocol.                                        *)
(*                                                                         *)
(* Each party is one process.  The static members synchronized_prng and    *)
(* local_prng exist once per process.  A Player channel is a FIFO queue of *)
(* messages per ordered pair of parties; send_to hands a message to the    *)
(* channel and returns, receive_player blocks until a message is there.    *)
(***************************************************************************)
EXTENDS Integers, Sequences, FiniteSets, TLC

(***************************************************************************)
(* Bounds of the model.                                                    *)
(***************************************************************************)
PRIME == 3          \* modulus of the clear type (T::clear), values 0..PRIME-1
MaxOperand == 1     \* a party's first share of a batch is in 0..MaxOperand
MaxSeed == 2        \* starting states of the synchronized stream: 1..MaxSeed
MaxMuls == 2        \* multiplications per program, over all its batches
MaxRounds == 2      \* multiplication, opening and input rounds per party
MaxExtra == 1       \* draws from the synchronized stream outside the program
MaxOpen == 2        \* shares a party queues for opening, over all rounds
MaxInputs == 2      \* private inputs a party contributes, over all rounds
MaxPlayers == 3     \* parties of a run: 2..MaxPlayers

\* calls made on one PPMLACProtocol instance in the runs with free call order
MaxCalls == 4

\* configured batch sizes of the preprocessing: 1..MaxBatch
MaxBatch == 4

\* records packed into one stream, and entries of a FixedVec
MaxRecords == 2
MaxVecLen == 2

\* items of one kind a program declares to use: 0..MaxUsage
MaxUsage == 12

\* configured bucket sizes: 1..MaxBucket
MaxBucket == 6

\* minimum output counts of a bucket size: 0..MaxOutputs
MaxOutputs == 2

\* shift amounts: 0..MaxShift
MaxShift == 1

(***************************************************************************)
(* Program constants.                                                      *)
(***************************************************************************)
N_BITS == 1000      \* PPMLACPrep::buffer_bits, int n = 1000

Parties == {0, 1}
Field == 0 .. (PRIME - 1)
\* the operand pairs a party hands to prepare_mul in one batch: the first is
\* (a, a + 1) for some a in 0..MaxOperand, each further one is the one before
\* with both shares raised by one
Operands == {<<a, (a + 1) % PRIME>> : a \in 0 .. MaxOperand}

NextOperands(prepared) ==
    IF prepared = <<>> THEN Operands
    ELSE {<<(prepared[Len(prepared)][1] + 1) % PRIME,
            (prepared[Len(prepared)][2] + 1) % PRIME>>}

\* the batches of n operand pairs starting with a pair of Operands
RECURSIVE BatchFrom(_, _)
BatchFrom(o, n) ==
    IF n = 0 THEN <<>>
    ELSE <<o>> \o BatchFrom(<<(o[1] + 1) % PRIME, (o[2] + 1) % PRIME>>, n - 1)

Batches(n) == {BatchFrom(o, n) : o \in Operands}
Seeds == 1 .. MaxSeed

Other(p) == 1 - p

(***************************************************************************)
(* Arithmetic of the clear type gfp_ (integers modulo PRIME).              *)
(***************************************************************************)
FAdd(a, b) == (a + b) % PRIME
FSub(a, b) == (a - b + PRIME) % PRIME
FMul(a, b) == (a * b) % PRIME

(***************************************************************************)
(* PRNG.  The generator is a block cipher in counter mode: its state is    *)
(* the key set by SetSeed and the number of blocks drawn so far, and the   *)
(* i-th draw is the cipher applied to i under the key.  Two generators     *)
(* produce the same values exactly as long as they hold the same key and   *)
(* have drawn equally often.  A small keyed mixing function stands for AES.*)
(***************************************************************************)
PRNG_block(key, i) ==
    LET k == key % 251
        j == i % 251
    IN  ((k + 2) * (j + 1) * (j + 3) + 7 * k * k + 5 * j * j * j) % 251

PRNG_SetSeed(seed) == [key |-> seed, cnt |-> 0]

PRNG_advance(g) == [g EXCEPT !.cnt = @ + 1]

\* G.get<clear>(): one field element
PRNG_get(g) == [val |-> PRNG_block(g.key, g.cnt + 1) % PRIME, prng |-> PRNG_advance(g)]

\* G.get_bit(): one bit
PRNG_get_bit(g) == [val |-> (PRNG_block(g.key, g.cnt + 1) \div 4) % 2, prng |-> PRNG_advance(g)]

\* G.get_octets(seed, SEED_SIZE): one seed
PRNG_get_octets(g) == [val |-> PRNG_block(g.key, g.cnt + 1), prng |-> PRNG_advance(g)]

\* the generator after n further draws
PRNG_skip(g, n) == [g EXCEPT !.cnt = @ + n]

(***************************************************************************)
(* octetStream: the bytes written so far and a read position.  A packed    *)
(* clear value or share is one record of the stream.                       *)
(***************************************************************************)
octetStream == [data |-> <<>>, rd |-> 0]

os_pack(os, v) == [os EXCEPT !.data = Append(os.data, v)]

os_left(os) == Len(os.data) - os.rd

\* the value unpack reads; the caller checks os_left(os) > 0
os_peek(os) == os.data[os.rd + 1]

os_consume(os) == [os EXCEPT !.rd = os.rd + 1]

(***************************************************************************)
(* State.                                                                  *)
(***************************************************************************)
VARIABLES
    machine,            \* "ppmlac": PPMLAC_party.cpp, "emulate": FakeProtocol
    synchronized_prng,  \* PPMLACProtocol<T>::synchronized_prng, per process
    local_prng,         \* PPMLACProtocol<T>::local_prng, per process
    proto,              \* the PPMLACProtocol instance of each party
    prep,               \* the PPMLACPrep instance of each party
    fake,               \* the FakeProtocol instance (party 0, "emulate")
    output,             \* the PPMLACOutput instance of each party
    input,              \* the PPMLACInput instance of each party
    chan,               \* Player: messages in flight, chan[<<from, to>>]
    script,             \* the program both parties execute
    idx,                \* idx[p]: number of completed program steps
    phase,              \* phase[p]: position of party p inside the step
    status,             \* "ok", "error" (exception thrown), "crashed",
                        \* "undefined" (returned from undefined behaviour)
    hist                \* history of party p's calls (not program state)

vars == <<machine, synchronized_prng, local_prng, proto, prep, fake, output,
          input, chan, script, idx, phase, status, hist>>

(***************************************************************************)
(* PPMLACProtocol, src/Protocols/PPMLAC_protocol.h                         *)
(***************************************************************************)
\* the members of a freshly constructed instance
PPMLACProtocol_new ==
    [x_vec |-> <<>>, y_vec |-> <<>>, results |-> <<>>,
     os_send |-> octetStream, os_receive |-> octetStream]

PPMLACProtocol_init_mul_keep(inst) ==
    [inst EXCEPT !.results = <<>>,
                 !.os_send = octetStream, !.os_receive = octetStream]

\* init_mul(): clear all five buffers
PPMLACProtocol_init_mul(inst) ==
    [inst EXCEPT !.x_vec = <<>>, !.y_vec = <<>>, !.results = <<>>,
                 !.os_send = octetStream, !.os_receive = octetStream]

PPMLACProtocol_prepare_mul_eager(inst, x, y) ==
    [inst EXCEPT !.x_vec = Append(inst.x_vec, x),
                 !.y_vec = Append(inst.y_vec, y),
                 !.results = Append(inst.results, FMul(x, y))]

\* prepare_mul(x, y): store the operands
PPMLACProtocol_prepare_mul(inst, x, y) ==
    [inst EXCEPT !.x_vec = Append(inst.x_vec, x),
                 !.y_vec = Append(inst.y_vec, y)]

Alice_mask_plus(x, r) == FAdd(x, r)

\* Alice's masked operand: d = x_vec[i] - r1
Alice_mask(x, r) == FSub(x, r)

Bob_result_share_plus_q(x, y, d, e, r1, r2, q1) ==
    FAdd(FMul(FAdd(FAdd(x, d), r1), FAdd(FAdd(y, e), r2)), q1)

\* Bob's result share: (x_vec[i] + d + r1) * (y_vec[i] + e + r2) - q1
Bob_result_share(x, y, d, e, r1, r2, q1) ==
    FSub(FMul(FAdd(FAdd(x, d), r1), FAdd(FAdd(y, e), r2)), q1)

\* the three draws of one multiplication: r1, r2, q1, in this order
draw_masks_short(g) ==
    LET r1 == PRNG_get(g)
        r2 == PRNG_get(r1.prng)
    IN  [r1 |-> r1.val, r2 |-> r2.val, q1 |-> r2.val, g |-> r2.prng]

draw_masks(g) ==
    LET r1 == PRNG_get(g)
        r2 == PRNG_get(r1.prng)
        q1 == PRNG_get(r2.prng)
    IN  [r1 |-> r1.val, r2 |-> r2.val, q1 |-> q1.val, g |-> q1.prng]

\* the loop of party 0 in exchange(), from entry i on; g is synchronized_prng
RECURSIVE Alice_loop(_, _, _)
Alice_loop(inst, g, i) ==
    IF i > Len(inst.x_vec) THEN [inst |-> inst, g |-> g]
    ELSE LET m == draw_masks(g)
             d == Alice_mask(inst.x_vec[i], m.r1)
             e == Alice_mask(inst.y_vec[i], m.r2)
         IN  Alice_loop(
                [inst EXCEPT !.os_send = os_pack(os_pack(inst.os_send, d), e),
                             !.results = Append(inst.results, m.q1)],
                m.g, i + 1)

\* the loop of party 1 in exchange(), from entry i on.  unpack on a stream
\* with no unread record throws: err is set and the loop is left.
RECURSIVE Bob_loop(_, _, _)
Bob_loop(inst, g, i) ==
    IF i > Len(inst.x_vec) THEN [inst |-> inst, g |-> g, err |-> FALSE]
    ELSE LET m == draw_masks(g)
         IN  IF os_left(inst.os_receive) < 2
             THEN [inst |-> inst, g |-> m.g, err |-> TRUE]
             ELSE LET d == os_peek(inst.os_receive)
                      e == os_peek(os_consume(inst.os_receive))
                      share == Bob_result_share(inst.x_vec[i], inst.y_vec[i],
                                                d, e, m.r1, m.r2, m.q1)
                  IN  Bob_loop(
                         [inst EXCEPT
                            !.os_receive = os_consume(os_consume(inst.os_receive)),
                            !.results = Append(inst.results, share)],
                         m.g, i + 1)

PPMLACProtocol_finalize_mul_back(inst) ==
    [res |-> inst.results[Len(inst.results)],
     inst |-> [inst EXCEPT !.results = SubSeq(inst.results, 1, Len(inst.results) - 1)]]

\* finalize_mul() with a result available: front() and erase(begin())
PPMLACProtocol_finalize_mul(inst) ==
    [res |-> Head(inst.results),
     inst |-> [inst EXCEPT !.results = Tail(inst.results)]]

(***************************************************************************)
(* PPMLACPrep, src/Protocols/PPMLAC_prep.h                                 *)
(***************************************************************************)
\* basic_setup(): synchronized_prng is seeded with the 16 bytes of
\* "test_seed_123456"
TEST_SEED == 123456

PPMLACPrep_basic_setup == PRNG_SetSeed(TEST_SEED)

\* basic_setup(player) when the parties hold the values contribs to
\* contribute to the seed: the code reads none of them and exchanges nothing
PPMLACPrep_basic_setup_for(contribs) == PPMLACPrep_basic_setup

\* buffer_triples(): throws runtime_error("no triples")
PPMLACPrep_buffer_triples_late(pr) ==
    [err |-> TRUE, prep |-> [pr EXCEPT !.triples = Append(@, <<0, 0, 0>>)]]

PPMLACPrep_buffer_triples(pr) == [err |-> TRUE, prep |-> pr]

\* the loop of buffer_bits(): the i-th bit drawn is pushed as the i-th share
buffer_bits_loop(bits, g, n) ==
    [bits |-> bits \o [i \in 1 .. n |->
                          IF PRNG_get_bit(PRNG_skip(g, i - 1)).val = 1 THEN 1 ELSE 0],
     g |-> PRNG_skip(g, n)]

(***************************************************************************)
(* FakeProtocol, src/Protocols/SemiShare.h.  results is a PointerVector:   *)
(* a vector with a read index that next() advances and clear() resets.     *)
(***************************************************************************)
PointerVector == [v |-> <<>>, i |-> 0]

PointerVector_push_back(pv, x) == [pv EXCEPT !.v = Append(pv.v, x)]

PointerVector_next(pv) == [res |-> pv.v[pv.i + 1], pv |-> [pv EXCEPT !.i = pv.i + 1]]

FakeProtocol_new == [results |-> PointerVector, dot_prod |-> 0]

FakeProtocol_init_mul(inst) == [inst EXCEPT !.results = PointerVector]

FakeProtocol_prepare_mul(inst, x, y) ==
    [inst EXCEPT !.results = PointerVector_push_back(inst.results, FMul(x, y))]

FakeProtocol_exchange(inst) == inst

FakeProtocol_finalize_mul(inst) ==
    [res |-> PointerVector_next(inst.results).res,
     inst |-> [inst EXCEPT !.results = PointerVector_next(inst.results).pv]]

\* init_dotprod(): init_mul(); dot_prod = {}
FakeProtocol_init_dotprod(inst) ==
    [FakeProtocol_init_mul(inst) EXCEPT !.dot_prod = 0]

\* prepare_dotprod(x, y): dot_prod += x * y
FakeProtocol_prepare_dotprod(inst, x, y) ==
    [inst EXCEPT !.dot_prod = FAdd(inst.dot_prod, FMul(x, y))]

FakeProtocol_next_dotprod_keep(inst) ==
    [inst EXCEPT !.results = PointerVector_push_back(inst.results, inst.dot_prod)]

\* next_dotprod(): results.push_back(dot_prod); dot_prod = 0
FakeProtocol_next_dotprod(inst) ==
    [inst EXCEPT !.results = PointerVector_push_back(inst.results, inst.dot_prod),
                 !.dot_prod = 0]

\* finalize_dotprod(n): finalize_mul()
FakeProtocol_finalize_dotprod(inst) == FakeProtocol_finalize_mul(inst)

(***************************************************************************)
(* The program.  Both parties execute the same script: constructions of a  *)
(* protocol instance ("new"), refills of the bit buffer ("bits") and       *)
(* multiplication rounds of n multiplications ("mul").                     *)
(***************************************************************************)
Step(op, n) == [op |-> op, n |-> n]

\* the multiplication rounds of the sizes ns, each followed by a bit refill
\* (odd rounds) or the construction of a new instance (even rounds)
RECURSIVE Program(_, _)
Program(ns, i) ==
    IF i > Len(ns) THEN <<>>
    ELSE <<Step("mul", ns[i]), Step(IF i % 2 = 1 THEN "bits" ELSE "new", 0)>>
            \o Program(ns, i + 1)

RECURSIVE SumSeq(_)
SumSeq(sq) == IF sq = <<>> THEN 0 ELSE Head(sq) + SumSeq(Tail(sq))

SeqsUpTo(S, k) == UNION {[1 .. j -> S] : j \in 0 .. k}

\* the sizes of the rounds of a program
RoundSizes == {ns \in SeqsUpTo(0 .. MaxMuls, MaxRounds) : SumSeq(ns) <= MaxMuls}

MulRounds(ns) == [i \in 1 .. Len(ns) |-> Step("mul", ns[i])]

\* programs of multiplication rounds: on one PPMLACProtocol instance, or on
\* the FakeProtocol of the emulator
Scripts(m) ==
    IF m = "ppmlac"
    THEN {<<Step("new", 0)>> \o MulRounds(ns) : ns \in RoundSizes}
    ELSE {MulRounds(ns) : ns \in RoundSizes \ {<<>>}}

\* programs that construct instances and refill bits between the rounds
StreamScripts == {<<Step("new", 0)>> \o Program(ns, 1) : ns \in RoundSizes}

\* the programs of the misuse scenarios: a construction and one round
HazardScripts == {<<Step("new", 0), Step("mul", n)>> : n \in 0 .. MaxMuls}

\* history of a party's calls in the current round
NoHist == [prepared |-> <<>>,   \* operand pairs of the prepare_mul calls
           returned |-> <<>>,   \* values returned by the finalize_mul calls
           snap |-> PRNG_SetSeed(0),         \* synchronized_prng when exchange() was entered
           extra |-> 0,         \* draws from synchronized_prng outside the script
           contrib |-> 0]       \* the value the party could contribute to the seed

NoOutput == [secrets |-> <<>>, values |-> <<>>]

\* BufferPrep: the buffers of bits and triples, empty at construction
NoPrep == [bits |-> <<>>, triples |-> <<>>]

NoInput == [my_shares |-> [q \in Parties |-> <<>>],
            masked_values |-> [q \in Parties |-> <<>>],
            buffered_input_streams |-> [q \in Parties |-> octetStream]]

NoChan == [c \in {<<0, 1>>, <<1, 0>>} |-> <<>>]

\* state after basic_setup: both processes seed synchronized_prng alike
Init ==
    /\ machine \in {"ppmlac", "emulate"}
    /\ \E s \in Seeds : synchronized_prng = [p \in Parties |-> PRNG_SetSeed(s)]
    /\ local_prng = [p \in Parties |-> PRNG_SetSeed(0)]
    /\ proto = [p \in Parties |-> PPMLACProtocol_new]
    /\ prep = [p \in Parties |-> NoPrep]
    /\ fake = FakeProtocol_new
    /\ output = [p \in Parties |-> NoOutput]
    /\ input = [p \in Parties |-> NoInput]
    /\ chan = NoChan
    /\ script \in Scripts(machine)
    /\ idx = [p \in Parties |-> 0]
    /\ phase = [p \in Parties |-> "idle"]
    /\ status = [p \in Parties |-> "ok"]
    /\ hist = [p \in Parties |-> NoHist]

\* party p is between two steps and its next step is op
AtStep(p, op) ==
    /\ status[p] = "ok"
    /\ \/ phase[p] = "idle"
       \/ phase[p] = "ready" /\ Len(hist[p].returned) >= Len(hist[p].prepared)
    /\ idx[p] < Len(script)
    /\ script[idx[p] + 1].op = op

\* PPMLACProtocol(Player& P): a seed is drawn from synchronized_prng and
\* local_prng is seeded with it
Construct(p) ==
    /\ machine = "ppmlac"
    /\ AtStep(p, "new")
    /\ LET seed == PRNG_get_octets(synchronized_prng[p])
       IN  /\ synchronized_prng' = [synchronized_prng EXCEPT ![p] = seed.prng]
           /\ local_prng' = [local_prng EXCEPT ![p] = PRNG_SetSeed(seed.val)]
    /\ proto' = [proto EXCEPT ![p] = PPMLACProtocol_new]
    /\ idx' = [idx EXCEPT ![p] = @ + 1]
    /\ phase' = [phase EXCEPT ![p] = "idle"]
    /\ hist' = [hist EXCEPT ![p].prepared = <<>>, ![p].returned = <<>>]
    /\ UNCHANGED <<machine, prep, fake, output, input, chan, script, status>>

\* PPMLACPrep::buffer_bits()
BufferBits(p) ==
    /\ machine = "ppmlac"
    /\ AtStep(p, "bits")
    /\ LET r == buffer_bits_loop(prep[p].bits, synchronized_prng[p], N_BITS)
       IN  /\ prep' = [prep EXCEPT ![p].bits = r.bits]
           /\ synchronized_prng' = [synchronized_prng EXCEPT ![p] = r.g]
    /\ idx' = [idx EXCEPT ![p] = @ + 1]
    /\ phase' = [phase EXCEPT ![p] = "idle"]
    /\ UNCHANGED <<machine, local_prng, proto, fake, output, input, chan,
                   script, status, hist>>

\* PPMLACProtocol::init_mul()
InitMul(p) ==
    /\ machine = "ppmlac"
    /\ AtStep(p, "mul")
    /\ proto' = [proto EXCEPT ![p] = PPMLACProtocol_init_mul(@)]
    /\ phase' = [phase EXCEPT ![p] = "accum"]
    /\ hist' = [hist EXCEPT ![p].prepared = <<>>, ![p].returned = <<>>]
    /\ UNCHANGED <<machine, synchronized_prng, local_prng, prep, fake, output,
                   input, chan, script, idx, status>>

\* PPMLACProtocol::prepare_mul(x, y)
PrepareMul(p, x, y) ==
    /\ machine = "ppmlac"
    /\ status[p] = "ok"
    /\ phase[p] = "accum"
    /\ Len(hist[p].prepared) < script[idx[p] + 1].n
    /\ proto' = [proto EXCEPT ![p] = PPMLACProtocol_prepare_mul(@, x, y)]
    /\ hist' = [hist EXCEPT ![p].prepared = Append(@, <<x, y>>)]
    /\ UNCHANGED <<machine, synchronized_prng, local_prng, prep, fake, output,
                   input, chan, script, idx, phase, status>>

\* the send placed inside the loop over the batch
ExchangeAlice_send_in_loop ==
    /\ machine = "ppmlac"
    /\ status[0] = "ok"
    /\ phase[0] = "accum"
    /\ Len(hist[0].prepared) = script[idx[0] + 1].n
    /\ LET r == Alice_loop(proto[0], synchronized_prng[0], 1)
       IN  /\ proto' = [proto EXCEPT ![0] = r.inst]
           /\ synchronized_prng' = [synchronized_prng EXCEPT ![0] = r.g]
           /\ chan' = [chan EXCEPT ![<<0, 1>>] =
                          @ \o [k \in 1 .. Len(proto[0].x_vec) |->
                                   SubSeq(r.inst.os_send.data, 1, 2 * k)]]
    /\ hist' = [hist EXCEPT ![0].snap = synchronized_prng[0]]
    /\ idx' = [idx EXCEPT ![0] = @ + 1]
    /\ phase' = [phase EXCEPT ![0] = "ready"]
    /\ UNCHANGED <<machine, local_prng, prep, fake, output, input, script, status>>

\* PPMLACProtocol::exchange(), party 0: mask, pack and send
ExchangeAlice ==
    /\ machine = "ppmlac"
    /\ status[0] = "ok"
    /\ phase[0] = "accum"
    /\ Len(hist[0].prepared) = script[idx[0] + 1].n
    /\ LET r == Alice_loop(proto[0], synchronized_prng[0], 1)
       IN  /\ proto' = [proto EXCEPT ![0] = r.inst]
           /\ synchronized_prng' = [synchronized_prng EXCEPT ![0] = r.g]
           /\ chan' = [chan EXCEPT ![<<0, 1>>] = Append(@, r.inst.os_send.data)]
    /\ hist' = [hist EXCEPT ![0].snap = synchronized_prng[0]]
    /\ idx' = [idx EXCEPT ![0] = @ + 1]
    /\ phase' = [phase EXCEPT ![0] = "ready"]
    /\ UNCHANGED <<machine, local_prng, prep, fake, output, input, script, status>>

\* PPMLACProtocol::exchange(), party 1: receive, unpack and multiply
ExchangeBob ==
    /\ machine = "ppmlac"
    /\ status[1] = "ok"
    /\ phase[1] = "accum"
    /\ Len(hist[1].prepared) = script[idx[1] + 1].n
    /\ chan[<<0, 1>>] # <<>>
    /\ LET rcv == [proto[1] EXCEPT !.os_receive = [data |-> Head(chan[<<0, 1>>]), rd |-> 0]]
           r == Bob_loop(rcv, synchronized_prng[1], 1)
       IN  /\ proto' = [proto EXCEPT ![1] = r.inst]
           /\ synchronized_prng' = [synchronized_prng EXCEPT ![1] = r.g]
           /\ status' = [status EXCEPT ![1] = IF r.err THEN "error" ELSE "ok"]
           /\ hist' = [hist EXCEPT ![1].snap = synchronized_prng[1]]
    /\ chan' = [chan EXCEPT ![<<0, 1>>] = Tail(@)]
    /\ idx' = [idx EXCEPT ![1] = @ + 1]
    /\ phase' = [phase EXCEPT ![1] = "ready"]
    /\ UNCHANGED <<machine, local_prng, prep, fake, output, input, script>>

\* PPMLACProtocol::finalize_mul() with a result in the buffer
FinalizeMul(p) ==
    /\ machine = "ppmlac"
    /\ status[p] = "ok"
    /\ phase[p] = "ready"
    /\ proto[p].results # <<>>
    /\ LET r == PPMLACProtocol_finalize_mul(proto[p])
       IN  /\ proto' = [proto EXCEPT ![p] = r.inst]
           /\ hist' = [hist EXCEPT ![p].returned = Append(@, r.res)]
    /\ UNCHANGED <<machine, synchronized_prng, local_prng, prep, fake, output,
                   input, chan, script, idx, phase, status>>

\* PPMLACProtocol::finalize_mul() with results empty: front() and
\* erase(begin()) on an empty vector are undefined.  The call crashes
\* ("crashed") or returns whatever value front() refers to and the party
\* goes on ("undefined"); no exception is thrown.
FinalizeMulEmpty(p) ==
    /\ machine = "ppmlac"
    /\ status[p] = "ok"
    /\ phase[p] = "ready"
    /\ proto[p].results = <<>>
    /\ \E outcome \in {"crashed", "undefined"} :
          status' = [status EXCEPT ![p] = outcome]
    /\ UNCHANGED <<machine, synchronized_prng, local_prng, proto, prep, fake,
                   output, input, chan, script, idx, phase, hist>>

\* a draw from the public static synchronized_prng that only party p makes,
\* before a multiplication round
ExtraDraw(p) ==
    /\ machine = "ppmlac"
    /\ AtStep(p, "mul")
    /\ hist[p].extra < MaxExtra
    /\ synchronized_prng' = [synchronized_prng EXCEPT ![p] = PRNG_get(@).prng]
    /\ hist' = [hist EXCEPT ![p].extra = @ + 1]
    /\ UNCHANGED <<machine, local_prng, proto, prep, fake, output, input, chan,
                   script, idx, phase, status>>

\* FakeProtocol::init_mul()
FakeInitMul ==
    /\ machine = "emulate"
    /\ AtStep(0, "mul")
    /\ fake' = FakeProtocol_init_mul(fake)
    /\ phase' = [phase EXCEPT ![0] = "accum"]
    /\ hist' = [hist EXCEPT ![0].prepared = <<>>, ![0].returned = <<>>]
    /\ UNCHANGED <<machine, synchronized_prng, local_prng, proto, prep, output,
                   input, chan, script, idx, status>>

\* FakeProtocol::prepare_mul(x, y)
FakePrepareMul(x, y) ==
    /\ machine = "emulate"
    /\ phase[0] = "accum"
    /\ Len(hist[0].prepared) < script[idx[0] + 1].n
    /\ fake' = FakeProtocol_prepare_mul(fake, x, y)
    /\ hist' = [hist EXCEPT ![0].prepared = Append(@, <<x, y>>)]
    /\ UNCHANGED <<machine, synchronized_prng, local_prng, proto, prep, output,
                   input, chan, script, idx, phase, status>>

\* FakeProtocol::exchange()
FakeExchange ==
    /\ machine = "emulate"
    /\ phase[0] = "accum"
    /\ Len(hist[0].prepared) = script[idx[0] + 1].n
    /\ fake' = FakeProtocol_exchange(fake)
    /\ idx' = [idx EXCEPT ![0] = @ + 1]
    /\ phase' = [phase EXCEPT ![0] = "ready"]
    /\ UNCHANGED <<machine, synchronized_prng, local_prng, proto, prep, output,
                   input, chan, script, status, hist>>

\* FakeProtocol::finalize_mul()
FakeFinalizeMul ==
    /\ machine = "emulate"
    /\ phase[0] = "ready"
    /\ fake.results.i < Len(fake.results.v)
    /\ LET r == FakeProtocol_finalize_mul(fake)
       IN  /\ fake' = r.inst
           /\ hist' = [hist EXCEPT ![0].returned = Append(@, r.res)]
    /\ UNCHANGED <<machine, synchronized_prng, local_prng, proto, prep, output,
                   input, chan, script, idx, phase, status>>

Next ==
    \/ \E p \in Parties : Construct(p)
    \/ \E p \in Parties : InitMul(p)
    \/ \E p \in Parties : \E o \in NextOperands(hist[p].prepared) : PrepareMul(p, o[1], o[2])
    \/ ExchangeAlice
    \/ ExchangeBob
    \/ \E p \in Parties : FinalizeMul(p)
    \/ FakeInitMul
    \/ \E o \in NextOperands(hist[0].prepared) : FakePrepareMul(o[1], o[2])
    \/ FakeExchange
    \/ FakeFinalizeMul

Spec == Init /\ [][Next]_vars

\* PPMLAC_party.cpp as it runs: the stream starts from the seed of
\* basic_setup; constructions, bit refills and multiplication rounds
InitStream ==
    /\ machine = "ppmlac"
    /\ synchronized_prng = [p \in Parties |-> PPMLACPrep_basic_setup]
    /\ local_prng = [p \in Parties |-> PRNG_SetSeed(0)]
    /\ proto = [p \in Parties |-> PPMLACProtocol_new]
    /\ prep = [p \in Parties |-> NoPrep]
    /\ fake = FakeProtocol_new
    /\ output = [p \in Parties |-> NoOutput]
    /\ input = [p \in Parties |-> NoInput]
    /\ chan = NoChan
    /\ script \in StreamScripts
    /\ idx = [p \in Parties |-> 0]
    /\ phase = [p \in Parties |-> "idle"]
    /\ status = [p \in Parties |-> "ok"]
    /\ hist = [p \in Parties |-> NoHist]

NextStream ==
    \/ \E p \in Parties : Construct(p)
    \/ \E p \in Parties : BufferBits(p)
    \/ \E p \in Parties : InitMul(p)
    \/ \E p \in Parties :
          \E o \in NextOperands(hist[p].prepared) : PrepareMul(p, o[1], o[2])
    \/ ExchangeAlice
    \/ ExchangeBob
    \/ \E p \in Parties : FinalizeMul(p)

SpecStream == InitStream /\ [][NextStream]_vars

\* misuse of the protocol: a draw outside the program, finalize_mul with no
\* result left
InitHazard ==
    /\ machine = "ppmlac"
    /\ \E s \in Seeds : synchronized_prng = [p \in Parties |-> PRNG_SetSeed(s)]
    /\ local_prng = [p \in Parties |-> PRNG_SetSeed(0)]
    /\ proto = [p \in Parties |-> PPMLACProtocol_new]
    /\ prep = [p \in Parties |-> NoPrep]
    /\ fake = FakeProtocol_new
    /\ output = [p \in Parties |-> NoOutput]
    /\ input = [p \in Parties |-> NoInput]
    /\ chan = NoChan
    /\ script \in HazardScripts
    /\ idx = [p \in Parties |-> 0]
    /\ phase = [p \in Parties |-> "idle"]
    /\ status = [p \in Parties |-> "ok"]
    /\ hist = [p \in Parties |-> NoHist]

NextHazard ==
    \/ \E p \in Parties : Construct(p)
    \/ \E p \in Parties : InitMul(p)
    \/ \E p \in Parties :
          \E o \in NextOperands(hist[p].prepared) : PrepareMul(p, o[1], o[2])
    \/ ExchangeAlice
    \/ ExchangeBob
    \/ \E p \in Parties : FinalizeMul(p)
    \/ \E p \in Parties : FinalizeMulEmpty(p)
    \/ ExtraDraw(1)

SpecHazard == InitHazard /\ [][NextHazard]_vars

(***************************************************************************)
(* Properties of the multiplication protocols.                             *)
(***************************************************************************)
\* the i-th value drawn from generator state g
StreamVal(g, i) == PRNG_get(PRNG_skip(g, i - 1)).val

\* party p has exchanged the batch of the step it completed last
Exchanged(p) ==
    /\ machine = "ppmlac"
    /\ status[p] = "ok"
    /\ phase[p] = "ready"
    /\ idx[p] >= 1
    /\ script[idx[p]].op = "mul"

\* the result shares party p obtained in exchange, in the order of the buffer
ResultShares(p) == hist[p].returned \o proto[p].results

\* both parties have exchanged the same batch
BothExchanged ==
    /\ Exchanged(0)
    /\ Exchanged(1)
    /\ idx[0] = idx[1]
    /\ Len(hist[0].prepared) = Len(hist[1].prepared)

\* the secret two additive shares stand for
Secret(s0, s1) == FAdd(s0, s1)

\* C1: when both parties entered exchange with synchronized_prng in the same
\* state and with batches of the same size, then for every batch entry the
\* two result shares add up to the product of the two secrets,
\* (x0 + x1) * (y0 + y1).
C1_ProductShared ==
    (BothExchanged /\ hist[0].snap = hist[1].snap) =>
        /\ Len(ResultShares(0)) = Len(hist[0].prepared)
        /\ Len(ResultShares(1)) = Len(hist[1].prepared)
        /\ \A k \in 1 .. Len(hist[0].prepared) :
              FAdd(ResultShares(0)[k], ResultShares(1)[k])
                 = FMul(Secret(hist[0].prepared[k][1], hist[1].prepared[k][1]),
                        Secret(hist[0].prepared[k][2], hist[1].prepared[k][2]))

\* a synchronized batch of two multiplications, the second with product /= 0
C1_Witness ==
    /\ BothExchanged
    /\ hist[0].snap = hist[1].snap
    /\ Len(hist[0].prepared) = 2
    /\ FMul(Secret(hist[0].prepared[2][1], hist[1].prepared[2][1]),
            Secret(hist[0].prepared[2][2], hist[1].prepared[2][2])) # 0
    /\ FMul(Secret(hist[0].prepared[1][1], hist[1].prepared[1][1]),
            Secret(hist[0].prepared[1][2], hist[1].prepared[1][2])) = 0

\* the result share party p's exchange produces for its k-th prepare_mul
\* call: party 0 keeps the third draw of the k-th triple of stream values,
\* party 1 combines its operands with the k-th received pair and its draws
ExpectedResult(p, k) ==
    LET g == hist[p].snap
        x == hist[p].prepared[k][1]
        y == hist[p].prepared[k][2]
    IN  IF p = 0 THEN StreamVal(g, 3 * k)
        ELSE LET d == proto[1].os_receive.data[2 * k - 1]
                 e == proto[1].os_receive.data[2 * k]
             IN  (((x + d + StreamVal(g, 3 * k - 2)) * (y + e + StreamVal(g, 3 * k - 1)))
                    + PRIME - StreamVal(g, 3 * k)) % PRIME

\* C2: after init_mul, N prepare_mul calls and exchange, the k-th
\* finalize_mul call returns the result of the k-th prepare_mul call, and
\* every result is returned exactly once: what was returned and what is
\* still queued are together the N results.  For PPMLACProtocol and
\* FakeProtocol.
C2_FinalizeFifo ==
    /\ \A p \in Parties : Exchanged(p) =>
          /\ Len(hist[p].returned) + Len(proto[p].results) = Len(hist[p].prepared)
          /\ \A k \in 1 .. Len(hist[p].returned) :
                hist[p].returned[k] = ExpectedResult(p, k)
    /\ (machine = "emulate" /\ phase[0] = "ready") =>
          /\ Len(fake.results.v) = Len(hist[0].prepared)
          /\ Len(hist[0].returned) = fake.results.i
          /\ \A k \in 1 .. Len(hist[0].returned) :
                hist[0].returned[k]
                   = (hist[0].prepared[k][1] * hist[0].prepared[k][2]) % PRIME

\* party 1 has been handed two results that differ, in the order of the calls
C2_Witness ==
    /\ Exchanged(1)
    /\ Len(hist[1].returned) = 2
    /\ hist[1].returned[1] # hist[1].returned[2]
    /\ proto[1].results = <<>>

\* C3: as long as no party draws outside the script, both parties hold
\* synchronized_prng in the same state whenever they have completed the same
\* number of steps; an exchange advances the stream by three draws per
\* queued multiplication, and party 0 masks x with the first and y with the
\* second draw of each triple and keeps the third.
C3_StreamInStep ==
    (machine = "ppmlac" /\ hist[1].extra = 0) =>
        /\ idx[0] = idx[1] => synchronized_prng[0] = synchronized_prng[1]
        /\ \A p \in Parties : Exchanged(p) =>
              synchronized_prng[p].cnt
                 = hist[p].snap.cnt + 3 * Len(hist[p].prepared)
        /\ Exchanged(0) =>
              \A k \in 1 .. Len(hist[0].prepared) :
                 /\ proto[0].os_send.data[2 * k - 1]
                       = (hist[0].prepared[k][1] + PRIME
                            - StreamVal(hist[0].snap, 3 * k - 2)) % PRIME
                 /\ proto[0].os_send.data[2 * k]
                       = (hist[0].prepared[k][2] + PRIME
                            - StreamVal(hist[0].snap, 3 * k - 1)) % PRIME

\* both parties have run a construction, an empty round, a bit refill and a
\* batch of two
C3_Witness ==
    /\ machine = "ppmlac"
    /\ hist[1].extra = 0
    /\ Len(script) = 5
    /\ script[3].op = "bits"
    /\ idx[0] = 4
    /\ idx[1] = 4
    /\ Exchanged(0)
    /\ Exchanged(1)
    /\ Len(hist[0].prepared) = 2
    /\ synchronized_prng[1].cnt = 1 + N_BITS + 6

\* the message party 0's exchange sends for the operand pairs ops when it
\* enters with synchronized_prng in state g
AliceMessage(ops, g) ==
    Alice_loop([PPMLACProtocol_new EXCEPT
                   !.x_vec = [k \in 1 .. Len(ops) |-> ops[k][1]],
                   !.y_vec = [k \in 1 .. Len(ops) |-> ops[k][2]]],
               g, 1).inst.os_send.data

\* C7: party 1's view of a multiplication round is the message it receives
\* and its own stream values.  The claim: the view is the same in every run
\* that differs only in party 0's operand shares, that is, had party 0
\* prepared any other operands under the same streams, party 1 would have
\* received the same message.
C7_ViewIndependentOfPeerOperands ==
    BothExchanged =>
        \A alt \in Batches(Len(hist[0].prepared)) :
            AliceMessage(alt, hist[0].snap) = proto[1].os_receive.data

\* both parties have exchanged the same batch, but entered exchange with
\* synchronized_prng in different states
DesyncedBatch ==
    /\ machine = "ppmlac"
    /\ phase[0] = "ready"
    /\ phase[1] = "ready"
    /\ idx[0] = idx[1]
    /\ idx[0] >= 1
    /\ script[idx[0]].op = "mul"
    /\ hist[0].snap # hist[1].snap

\* C8: a batch exchanged with the two streams at different positions is
\* detected: some party raises an error and no party's finalize_mul hands
\* out a result share of that batch.
C8_DesyncDetected ==
    DesyncedBatch =>
        /\ \E p \in Parties : status[p] = "error"
        /\ \A p \in Parties : hist[p].returned = <<>>

\* party 1 entered exchange exactly one draw ahead of party 0
OneDrawAhead ==
    /\ BothExchanged
    /\ hist[1].snap = PRNG_skip(hist[0].snap, 1)

\* sum of the result shares of entry k, and the product of its secrets
ShareSum(k) == FAdd(ResultShares(0)[k], ResultShares(1)[k])

TrueProduct(k) ==
    FMul(Secret(hist[0].prepared[k][1], hist[1].prepared[k][1]),
         Secret(hist[0].prepared[k][2], hist[1].prepared[k][2]))

\* C9: when party 1 is one draw ahead, it unmasks with the stream shifted by
\* one: with s(j) the j-th value after party 0's position, the result shares
\* of entry k add up to
\*    (x + s(3k-1) - s(3k-2)) * (y + s(3k) - s(3k-1)) + s(3k) - s(3k+1),
\* which is the true product x*y only where the shifted values cancel;
\* C9_Witness is a batch where they do not and the sum differs from x*y.
C9_ExtraDrawShiftsProduct ==
    OneDrawAhead =>
        \A k \in 1 .. Len(hist[0].prepared) :
            LET g == hist[0].snap
                x == hist[0].prepared[k][1] + hist[1].prepared[k][1]
                y == hist[0].prepared[k][2] + hist[1].prepared[k][2]
                u == x + StreamVal(g, 3 * k - 1) + PRIME - StreamVal(g, 3 * k - 2)
                v == y + StreamVal(g, 3 * k) + PRIME - StreamVal(g, 3 * k - 1)
            IN  ShareSum(k)
                   = (u * v + StreamVal(g, 3 * k) + PRIME
                        - StreamVal(g, 3 * k + 1)) % PRIME

C9_Witness ==
    /\ OneDrawAhead
    /\ hist[1].extra = 1
    /\ \E k \in 1 .. Len(hist[0].prepared) : ShareSum(k) # TrueProduct(k)

\* C10: a finalize_mul call made when no result of the round is left is
\* reported as an error and returns no value.
C10_OverFinalizeIsError ==
    \A p \in Parties :
        (phase[p] = "ready" /\ proto[p].results = <<>> /\ status[p] # "ok")
            => status[p] = "error"

(***************************************************************************)
(* PPMLACOutput, src/Protocols/PPMLAC_protocol.h.  secrets and values are  *)
(* the members of MAC_Check_Base: init_open clears both, prepare_open      *)
(* queues a share.  exchange() is two steps, since receive_player blocks.  *)
(***************************************************************************)
MAC_Check_Base_init_open(mc) == [mc EXCEPT !.secrets = <<>>, !.values = <<>>]

MAC_Check_Base_prepare_open(mc, secret) ==
    [mc EXCEPT !.secrets = Append(mc.secrets, secret)]

\* exchange(), first half: the queued shares packed into os_send, in order
PPMLACOutput_pack_backwards(secrets) ==
    [i \in 1 .. Len(secrets) |-> secrets[Len(secrets) + 1 - i]]

PPMLACOutput_pack(secrets) == secrets

\* exchange(), reconstruction of entry i: secrets[i].value + other_share.value
PPMLACOutput_reconstruct_own(mine, other) == FAdd(mine, mine)

PPMLACOutput_reconstruct(mine, other) == FAdd(mine, other)

PPMLACOutput_receive_keep(mc, msg) ==
    LET n == IF Len(msg) < Len(mc.secrets) THEN Len(msg) ELSE Len(mc.secrets)
        sums == [i \in 1 .. n |-> PPMLACOutput_reconstruct(mc.secrets[i], msg[i])]
    IN  [mc |-> [mc EXCEPT !.values = mc.values \o sums],
         err |-> Len(msg) < Len(mc.secrets)]

\* exchange(), second half: unpack one share per queued secret, push the
\* sums onto values and clear secrets.  unpack on a stream with no unread
\* record throws (err), after the sums of the entries before it are pushed.
PPMLACOutput_receive(mc, msg) ==
    LET n == IF Len(msg) < Len(mc.secrets) THEN Len(msg) ELSE Len(mc.secrets)
        sums == [i \in 1 .. n |-> PPMLACOutput_reconstruct(mc.secrets[i], msg[i])]
    IN  IF Len(msg) < Len(mc.secrets)
        THEN [mc |-> [mc EXCEPT !.values = mc.values \o sums], err |-> TRUE]
        ELSE [mc |-> [mc EXCEPT !.values = mc.values \o sums, !.secrets = <<>>],
              err |-> FALSE]

\* history of a party's openings
NoOutHist == [batches |-> <<>>,  \* the shares queued at each exchange so far
              vlen |-> 0,        \* Len(values) when the last exchange began
              done |-> 0,        \* exchanges completed
              fresh |-> FALSE,   \* values untouched since the last exchange
              altered |-> 0]     \* the exchange whose incoming message was
                                 \* altered in transit, 0 if none

RECURSIVE SumLen(_)
SumLen(sq) == IF sq = <<>> THEN 0 ELSE Len(Head(sq)) + SumLen(Tail(sq))

\* the shares a party queues in one batch: the first is in 0..MaxOperand,
\* each further one is the one before raised by one
NextShares(queued) ==
    IF queued = <<>> THEN 0 .. MaxOperand
    ELSE {(queued[Len(queued)] + 1) % PRIME}

InitOut ==
    /\ machine = "ppmlac"
    /\ synchronized_prng = [p \in Parties |-> PRNG_SetSeed(0)]
    /\ local_prng = [p \in Parties |-> PRNG_SetSeed(0)]
    /\ proto = [p \in Parties |-> PPMLACProtocol_new]
    /\ prep = [p \in Parties |-> NoPrep]
    /\ fake = FakeProtocol_new
    /\ output = [p \in Parties |-> NoOutput]
    /\ input = [p \in Parties |-> NoInput]
    /\ chan = NoChan
    /\ script = <<>>
    /\ idx = [p \in Parties |-> 0]
    /\ phase = [p \in Parties |-> "queue"]
    /\ status = [p \in Parties |-> "ok"]
    /\ hist = [p \in Parties |-> NoOutHist]

\* MAC_Check_Base::init_open
OutInitOpen(p) ==
    /\ status[p] = "ok"
    /\ phase[p] = "queue"
    /\ output[p].secrets = <<>>
    /\ output[p].values # <<>>
    /\ output' = [output EXCEPT ![p] = MAC_Check_Base_init_open(@)]
    /\ hist' = [hist EXCEPT ![p].fresh = FALSE]
    /\ UNCHANGED <<machine, synchronized_prng, local_prng, proto, prep, fake,
                   input, chan, script, idx, phase, status>>

\* MAC_Check_Base::prepare_open
OutPrepareOpen(p, secret) ==
    /\ status[p] = "ok"
    /\ phase[p] = "queue"
    /\ hist[p].done < MaxRounds
    /\ SumLen(hist[p].batches) + Len(output[p].secrets) < MaxOpen
    /\ output' = [output EXCEPT ![p] = MAC_Check_Base_prepare_open(@, secret)]
    /\ UNCHANGED <<machine, synchronized_prng, local_prng, proto, prep, fake,
                   input, chan, script, idx, phase, status, hist>>

OutExchangeSend_receive_first(p) ==
    /\ status[p] = "ok"
    /\ phase[p] = "queue"
    /\ hist[p].done < MaxRounds
    /\ phase' = [phase EXCEPT ![p] = "receive"]
    /\ hist' = [hist EXCEPT ![p].batches = Append(@, output[p].secrets),
                            ![p].vlen = Len(output[p].values),
                            ![p].fresh = FALSE]
    /\ UNCHANGED <<machine, synchronized_prng, local_prng, proto, prep, fake,
                   output, input, chan, script, idx, status>>

\* PPMLACOutput::exchange up to P.send_to
OutExchangeSend(p) ==
    /\ status[p] = "ok"
    /\ phase[p] = "queue"
    /\ hist[p].done < MaxRounds
    /\ chan' = [chan EXCEPT ![<<p, Other(p)>>] =
                   Append(@, PPMLACOutput_pack(output[p].secrets))]
    /\ phase' = [phase EXCEPT ![p] = "receive"]
    /\ hist' = [hist EXCEPT ![p].batches = Append(@, output[p].secrets),
                            ![p].vlen = Len(output[p].values),
                            ![p].fresh = FALSE]
    /\ UNCHANGED <<machine, synchronized_prng, local_prng, proto, prep, fake,
                   output, input, script, idx, status>>

\* PPMLACOutput::exchange from P.receive_player on
OutExchangeReceive(p) ==
    /\ status[p] = "ok"
    /\ phase[p] = "receive"
    /\ chan[<<Other(p), p>>] # <<>>
    /\ LET r == PPMLACOutput_receive(output[p], Head(chan[<<Other(p), p>>]))
       IN  /\ output' = [output EXCEPT ![p] = r.mc]
           /\ status' = [status EXCEPT ![p] = IF r.err THEN "error" ELSE "ok"]
           /\ hist' = [hist EXCEPT ![p].done = @ + 1, ![p].fresh = ~r.err]
    /\ chan' = [chan EXCEPT ![<<Other(p), p>>] = Tail(@)]
    /\ phase' = [phase EXCEPT ![p] = "queue"]
    /\ UNCHANGED <<machine, synchronized_prng, local_prng, proto, prep, fake,
                   input, script, idx>>

NextOut ==
    \/ \E p \in Parties : OutInitOpen(p)
    \/ \E p \in Parties : \E secret \in NextShares(output[p].secrets) : OutPrepareOpen(p, secret)
    \/ \E p \in Parties : OutExchangeSend(p)
    \/ \E p \in Parties : OutExchangeReceive(p)

SpecOut == InitOut /\ [][NextOut]_vars

\* the values party p's last exchange appended
Opened(p) == SubSeq(output[p].values, hist[p].vlen + 1, Len(output[p].values))

\* party p has completed an exchange in which both parties had queued the
\* same number of shares
OpenedAlike(p) ==
    /\ hist[p].fresh
    /\ Len(hist[Other(p)].batches) >= hist[p].done
    /\ Len(hist[p].batches[hist[p].done])
          = Len(hist[Other(p)].batches[hist[p].done])

\* C4: when both parties have queued n shares, exchange appends n opened
\* values at each party, the i-th being its own i-th queued share plus the
\* peer's i-th queued share; both parties obtain the same opened values.
C4_OpenedInQueueOrder ==
    /\ \A p \in Parties : OpenedAlike(p) =>
          LET mine == hist[p].batches[hist[p].done]
              theirs == hist[Other(p)].batches[hist[p].done]
          IN  /\ Len(Opened(p)) = Len(mine)
              /\ \A i \in 1 .. Len(mine) : Opened(p)[i] = (mine[i] + theirs[i]) % PRIME
    /\ (OpenedAlike(0) /\ OpenedAlike(1) /\ hist[0].done = hist[1].done) =>
          Opened(0) = Opened(1)

\* both parties opened two values that differ
C4_Witness ==
    /\ OpenedAlike(0)
    /\ OpenedAlike(1)
    /\ hist[0].done = hist[1].done
    /\ Len(Opened(0)) = 2
    /\ Opened(0)[1] # Opened(0)[2]
    /\ hist[0].batches[hist[0].done] # hist[1].batches[hist[1].done]

\* the message msg with its i-th share replaced by the next field element
AlterShare(msg, i) == [msg EXCEPT ![i] = FAdd(@, 1)]

\* the network alters one share of the message party p receives next; it
\* does so once
OutTamper(p) ==
    /\ status[p] = "ok"
    /\ \A q \in Parties : hist[q].altered = 0
    /\ chan[<<Other(p), p>>] # <<>>
    /\ \E i \in 1 .. Len(Head(chan[<<Other(p), p>>])) :
          chan' = [chan EXCEPT ![<<Other(p), p>>] =
                      <<AlterShare(Head(@), i)>> \o Tail(@)]
    /\ hist' = [hist EXCEPT ![p].altered = hist[p].done + 1]
    /\ UNCHANGED <<machine, synchronized_prng, local_prng, proto, prep, fake,
                   output, input, script, idx, phase, status>>

NextOutTamper ==
    \/ NextOut
    \/ \E p \in Parties : OutTamper(p)

\* openings over a network that may alter a share in transit
SpecOutTamper == InitOut /\ [][NextOutTamper]_vars

\* C11: if a share party p receives in an opening differs from the share
\* the peer queued, p's exchange aborts with an error instead of delivering
\* reconstructed values.
\* party p has completed the exchange whose incoming message was altered,
\* and both parties had queued the same number of shares for it
OpenedAltered(p) ==
    /\ hist[p].altered > 0
    /\ hist[p].done >= hist[p].altered
    /\ Len(hist[p].batches[hist[p].altered])
          = Len(hist[Other(p)].batches[hist[p].altered])

C11_AlteredShareAborts ==
    \A p \in Parties : OpenedAltered(p) => status[p] = "error"

(***************************************************************************)
(* PPMLACInput, src/Protocols/PPMLAC_protocol.h.  The three maps are keyed *)
(* by player.  exchange() is two steps, since receive_player blocks.       *)
(***************************************************************************)
\* PPMLACInput(proc, MC): throws unless the Player has two parties
PPMLACInput_new_unchecked(num_players) == [err |-> FALSE, inp |-> NoInput]

PPMLACInput_new(num_players) == [err |-> num_players # 2, inp |-> NoInput]

\* reset(player)
PPMLACInput_reset_all(inp, player) ==
    [inp EXCEPT !.my_shares = [q \in Parties |-> <<>>],
                !.masked_values = [q \in Parties |-> <<>>]]

\* reset(player)
PPMLACInput_reset(inp, player) ==
    [inp EXCEPT !.my_shares[player] = <<>>, !.masked_values[player] = <<>>]

PPMLACInput_add_mine_unmasked(inp, my_num, v, g) ==
    LET r == PRNG_get(g)
    IN  [inp |-> [inp EXCEPT !.my_shares[my_num] = Append(@, r.val),
                             !.masked_values[my_num] = Append(@, v)],
         g |-> r.prng]

\* add_mine(input): the share is a mask r drawn from local_prng (g), the
\* value for the peer is input - r
PPMLACInput_add_mine(inp, my_num, v, g) ==
    LET r == PRNG_get(g)
    IN  [inp |-> [inp EXCEPT !.my_shares[my_num] = Append(@, r.val),
                             !.masked_values[my_num] = Append(@, FSub(v, r.val))],
         g |-> r.prng]

\* send_mine(), called when masked_values[my_num] is not empty: the
\* messages added to the channel to the peer
PPMLACInput_send_mine(inp, my_num) ==
    IF inp.masked_values[my_num] = <<>> THEN <<>>
    ELSE <<inp.masked_values[my_num]>>

\* exchange(): buffered_input_streams[other_player] = std::move(os)
PPMLACInput_buffer(inp, other_player, msg) ==
    [inp EXCEPT !.buffered_input_streams[other_player] = [data |-> msg, rd |-> 0]]

\* finalize_mine(): throws when my_shares[my_num] is empty
PPMLACInput_finalize_mine(inp, my_num) ==
    IF inp.my_shares[my_num] = <<>>
    THEN [err |-> TRUE, res |-> 0, inp |-> inp]
    ELSE [err |-> FALSE, res |-> Head(inp.my_shares[my_num]),
          inp |-> [inp EXCEPT !.my_shares[my_num] = Tail(@)]]

PPMLACInput_finalize_other_silent(inp, player) ==
    LET os == inp.buffered_input_streams[player]
    IN  IF Len(os.data) = 0 \/ os_left(os) = 0
        THEN [err |-> FALSE, res |-> 0, inp |-> inp]
        ELSE [err |-> FALSE, res |-> os_peek(os),
              inp |-> [inp EXCEPT !.buffered_input_streams[player] = os_consume(os)]]

\* finalize_other(player, target): throws when the stream buffered for the
\* player has length 0; unpack throws when no unread record is left
PPMLACInput_finalize_other(inp, player) ==
    LET os == inp.buffered_input_streams[player]
    IN  IF Len(os.data) = 0 \/ os_left(os) = 0
        THEN [err |-> TRUE, res |-> 0, inp |-> inp]
        ELSE [err |-> FALSE, res |-> os_peek(os),
              inp |-> [inp EXCEPT !.buffered_input_streams[player] = os_consume(os)]]


\* history of a party's input rounds; round r is its r-th exchange
NoInHist == [inputs |-> <<>>,  \* values given to add_mine in this round
             mine |-> <<>>,    \* results of finalize_mine in this round
             other |-> <<>>,   \* results of finalize_other in this round
             round |-> 0,      \* exchanges entered
             added |-> 0,      \* add_mine calls of all rounds
             resets |-> Parties]  \* players reset in this round

\* state after basic_setup and the construction of one PPMLACProtocol at
\* each party, which seeds local_prng from synchronized_prng
InitIn ==
    /\ machine = "ppmlac"
    /\ LET seed == PRNG_get_octets(PPMLACPrep_basic_setup)
       IN  /\ synchronized_prng = [p \in Parties |-> seed.prng]
           /\ local_prng = [p \in Parties |-> PRNG_SetSeed(seed.val)]
    /\ proto = [p \in Parties |-> PPMLACProtocol_new]
    /\ prep = [p \in Parties |-> NoPrep]
    /\ fake = FakeProtocol_new
    /\ output = [p \in Parties |-> NoOutput]
    /\ input = [p \in Parties |-> NoInput]
    /\ chan = NoChan
    /\ script = <<>>
    /\ idx = [p \in Parties |-> 0]
    /\ phase = [p \in Parties |-> "add"]
    /\ status = [p \in Parties |-> "ok"]
    /\ hist = [p \in Parties |-> NoInHist]

\* PPMLACInput::reset(player), at the start of a round; the caller resets
\* player 0, then player 1
InReset(p, player) ==
    /\ status[p] = "ok"
    /\ phase[p] \in {"fin", "start"}
    /\ hist[p].round < MaxRounds
    /\ player = (IF phase[p] = "fin" THEN 0 ELSE Cardinality(hist[p].resets))
    /\ input' = [input EXCEPT ![p] = PPMLACInput_reset(@, player)]
    /\ phase' = [phase EXCEPT ![p] = "start"]
    /\ hist' = [hist EXCEPT ![p] =
                   IF phase[p] = "fin"
                   THEN [NoInHist EXCEPT !.round = hist[p].round,
                                         !.added = hist[p].added,
                                         !.resets = {player}]
                   ELSE [@ EXCEPT !.resets = @ \cup {player}]]
    /\ UNCHANGED <<machine, synchronized_prng, local_prng, proto, prep, fake,
                   output, chan, script, idx, status>>

\* party p may add inputs or enter exchange
InAdding(p) ==
    /\ status[p] = "ok"
    /\ \/ phase[p] = "add"
       \/ phase[p] = "start" /\ hist[p].resets = Parties

\* PPMLACInput::add_mine(input)
InAddMine(p, v) ==
    /\ InAdding(p)
    /\ hist[p].added < MaxInputs
    /\ LET r == PPMLACInput_add_mine(input[p], p, v, local_prng[p])
       IN  /\ input' = [input EXCEPT ![p] = r.inp]
           /\ local_prng' = [local_prng EXCEPT ![p] = r.g]
    /\ phase' = [phase EXCEPT ![p] = "add"]
    /\ hist' = [hist EXCEPT ![p].inputs = Append(@, v), ![p].added = @ + 1]
    /\ UNCHANGED <<machine, synchronized_prng, proto, prep, fake, output, chan,
                   script, idx, status>>

\* PPMLACInput::exchange() up to P.receive_player: party 0 sends its masked
\* values if it has any, party 1 sends nothing yet
InExchangeEnter(p) ==
    /\ InAdding(p)
    /\ chan' = [chan EXCEPT ![<<p, Other(p)>>] =
                   IF p = 0 THEN @ \o PPMLACInput_send_mine(input[p], p) ELSE @]
    /\ phase' = [phase EXCEPT ![p] = "recv"]
    /\ hist' = [hist EXCEPT ![p].round = @ + 1]
    /\ UNCHANGED <<machine, synchronized_prng, local_prng, proto, prep, fake,
                   output, input, script, idx, status>>

\* PPMLACInput::exchange() from P.receive_player on: the message is
\* buffered for the peer; party 1 then sends its masked values if it has any
InExchangeReceive(p) ==
    /\ status[p] = "ok"
    /\ phase[p] = "recv"
    /\ chan[<<Other(p), p>>] # <<>>
    /\ input' = [input EXCEPT ![p] =
                    PPMLACInput_buffer(@, Other(p), Head(chan[<<Other(p), p>>]))]
    /\ chan' = [chan EXCEPT
                   ![<<Other(p), p>>] = Tail(@),
                   ![<<p, Other(p)>>] =
                       IF p = 1 THEN @ \o PPMLACInput_send_mine(input[p], p) ELSE @]
    /\ phase' = [phase EXCEPT ![p] = "fin"]
    /\ UNCHANGED <<machine, synchronized_prng, local_prng, proto, prep, fake,
                   output, script, idx, status, hist>>

\* PPMLACInput::finalize_mine()
InFinalizeMine(p) ==
    /\ status[p] = "ok"
    /\ phase[p] = "fin"
    /\ LET r == PPMLACInput_finalize_mine(input[p], p)
       IN  /\ input' = [input EXCEPT ![p] = r.inp]
           /\ status' = [status EXCEPT ![p] = IF r.err THEN "error" ELSE "ok"]
           /\ hist' = IF r.err THEN hist
                      ELSE [hist EXCEPT ![p].mine = Append(@, r.res)]
    /\ UNCHANGED <<machine, synchronized_prng, local_prng, proto, prep, fake,
                   output, chan, script, idx, phase>>

\* PPMLACInput::finalize_other(player, target, o), after an exchange or
\* before the first one
InFinalizeOther(p) ==
    /\ status[p] = "ok"
    /\ \/ phase[p] = "fin"
       \/ phase[p] = "add" /\ hist[p].round = 0
    /\ LET r == PPMLACInput_finalize_other(input[p], Other(p))
       IN  /\ input' = [input EXCEPT ![p] = r.inp]
           /\ status' = [status EXCEPT ![p] = IF r.err THEN "error" ELSE "ok"]
           /\ hist' = IF r.err THEN hist
                      ELSE [hist EXCEPT ![p].other = Append(@, r.res)]
    /\ UNCHANGED <<machine, synchronized_prng, local_prng, proto, prep, fake,
                   output, chan, script, idx, phase>>

NextIn ==
    \/ \E p \in Parties : \E player \in Parties : InReset(p, player)
    \/ \E p \in Parties : \E v \in NextShares(hist[p].inputs) : InAddMine(p, v)
    \/ \E p \in Parties : InExchangeEnter(p)
    \/ \E p \in Parties : InExchangeReceive(p)
    \/ \E p \in Parties : InFinalizeMine(p)
    \/ \E p \in Parties : InFinalizeOther(p)

SpecIn == InitIn /\ [][NextIn]_vars

\* C5: for every contributor c, in every round, the share c's k-th
\* finalize_mine returns and the share the other party's k-th
\* finalize_other(c) returns add up to the k-th value c passed to add_mine.
C5_InputShared ==
    \A c \in Parties :
        hist[c].round = hist[Other(c)].round =>
            \A k \in 1 .. Len(hist[c].mine) :
                k <= Len(hist[Other(c)].other) =>
                    (hist[c].mine[k] + hist[Other(c)].other[k]) % PRIME
                        = hist[c].inputs[k]

\* party 0 contributed two inputs in one round, the second not 0, and both
\* shares of both inputs have been finalized
C5_Witness ==
    /\ hist[0].round = hist[1].round
    /\ Len(hist[0].inputs) = 2
    /\ hist[0].inputs[2] # 0
    /\ Len(hist[0].mine) = 2
    /\ Len(hist[1].other) = 2
    /\ hist[0].mine[1] # hist[0].mine[2]

\* party p is inside exchange, waiting in receive_player with no message
\* in flight to it
BlockedInReceive(p) ==
    /\ phase[p] = "recv"
    /\ chan[<<Other(p), p>>] = <<>>

\* C6: exchange returns at both parties whatever the numbers of inputs the
\* two parties queued: the parties are never both waiting in receive_player
\* with nothing in flight.
C6_InputExchangeReturns == ~(BlockedInReceive(0) /\ BlockedInReceive(1))

\* the seed of the generator g: what a party must hold to reproduce g's draws
SeedOf(g) == g.key

\* C12: a contributor's masks come from its local randomness source, and the
\* party that receives the masked value does not hold the state of that
\* source: when a party has taken a masked value of contributor c, the seed
\* of c's local_prng is not the seed of a generator the receiver holds.
C12_MaskSourcePrivate ==
    \A c \in Parties :
        (hist[c].round = hist[Other(c)].round /\ hist[c].inputs # <<>>
            /\ hist[Other(c)].other # <<>>)
          => /\ SeedOf(local_prng[c]) # SeedOf(local_prng[Other(c)])
             /\ SeedOf(local_prng[c]) # SeedOf(synchronized_prng[Other(c)])

(***************************************************************************)
(* Start-up of a run with n parties.  PPMLACShare::variable_players is     *)
(* true, so the machine accepts any n.  Each party runs basic_setup, then  *)
(* its processor constructs the protocol and the input facility before the *)
(* first instruction; then a multiplication round and a request for        *)
(* triples.  The else branch of PPMLACProtocol::exchange (my_num > 1) is   *)
(* not reached: with n # 2 no party gets past the input constructor.       *)
(***************************************************************************)
Players(n) == 0 .. n - 1

num_players == Cardinality(DOMAIN status)

SetupScripts ==
    {<<Step("setup", 0), Step("new", 0), Step("input", 0), Step("mul", n),
       Step("triples", 0)>> : n \in 0 .. MaxMuls}

\* the values the parties could contribute to the seed
Contribs == [q \in DOMAIN hist |-> hist[q].contrib]

InitSetup ==
    /\ machine = "ppmlac"
    /\ \E n \in 2 .. MaxPlayers :
          /\ synchronized_prng = [p \in Players(n) |-> PRNG_SetSeed(0)]
          /\ local_prng = [p \in Players(n) |-> PRNG_SetSeed(0)]
          /\ proto = [p \in Players(n) |-> PPMLACProtocol_new]
          /\ prep = [p \in Players(n) |-> NoPrep]
          /\ output = [p \in Players(n) |-> NoOutput]
          /\ input = [p \in Players(n) |-> NoInput]
          /\ chan = [c \in {d \in Players(n) \X Players(n) : d[1] # d[2]} |-> <<>>]
          /\ idx = [p \in Players(n) |-> 0]
          /\ phase = [p \in Players(n) |-> "idle"]
          /\ status = [p \in Players(n) |-> "ok"]
          /\ hist \in [Players(n) -> {[NoHist EXCEPT !.contrib = c] : c \in Seeds}]
    /\ fake = FakeProtocol_new
    /\ script \in SetupScripts

\* PPMLACPrep::basic_setup(player)
BasicSetup(p) ==
    /\ AtStep(p, "setup")
    /\ synchronized_prng' = [synchronized_prng EXCEPT ![p] =
                                PPMLACPrep_basic_setup_for(Contribs)]
    /\ idx' = [idx EXCEPT ![p] = @ + 1]
    /\ UNCHANGED <<machine, local_prng, proto, prep, fake, output, input, chan,
                   script, phase, status, hist>>

\* PPMLACInput(proc, MC), constructed by the party's processor
ConstructInput(p) ==
    /\ AtStep(p, "input")
    /\ LET r == PPMLACInput_new(num_players)
       IN  IF r.err
           THEN /\ status' = [status EXCEPT ![p] = "error"]
                /\ UNCHANGED <<input, idx>>
           ELSE /\ input' = [input EXCEPT ![p] = r.inp]
                /\ idx' = [idx EXCEPT ![p] = @ + 1]
                /\ UNCHANGED status
    /\ UNCHANGED <<machine, synchronized_prng, local_prng, proto, prep, fake,
                   output, chan, script, phase, hist>>

\* PPMLACPrep::buffer_triples()
BufferTriples(p) ==
    /\ AtStep(p, "triples")
    /\ LET r == PPMLACPrep_buffer_triples(prep[p])
       IN  /\ prep' = [prep EXCEPT ![p] = r.prep]
           /\ status' = [status EXCEPT ![p] = IF r.err THEN "error" ELSE "ok"]
           /\ idx' = [idx EXCEPT ![p] = IF r.err THEN @ ELSE @ + 1]
    /\ UNCHANGED <<machine, synchronized_prng, local_prng, proto, fake, output,
                   input, chan, script, phase, hist>>

NextSetup ==
    \/ \E p \in DOMAIN status : BasicSetup(p)
    \/ \E p \in DOMAIN status : Construct(p)
    \/ \E p \in DOMAIN status : ConstructInput(p)
    \/ \E p \in Parties : InitMul(p)
    \/ \E p \in Parties :
          \E o \in NextOperands(hist[p].prepared) : PrepareMul(p, o[1], o[2])
    \/ ExchangeAlice
    \/ ExchangeBob
    \/ \E p \in Parties : FinalizeMul(p)
    \/ \E p \in DOMAIN status : BufferTriples(p)

SpecSetup == InitSetup /\ [][NextSetup]_vars

\* C13: basic_setup derives the seed of the synchronized stream from the
\* values the parties contribute: once a party has run basic_setup, any
\* change of a party's contribution would have given it another seed.
C13_SeedFromContributions ==
    \A p \in DOMAIN status :
        idx[p] >= 1 =>
            \A alt \in [DOMAIN hist -> Seeds] :
                alt # Contribs =>
                    SeedOf(PPMLACPrep_basic_setup_for(alt))
                        # SeedOf(synchronized_prng[p])

\* C15: every buffer_triples call fails with an error, and the failing call
\* adds no triple to the buffer, sends no message and draws nothing from the
\* synchronized stream.
C15_BufferTriplesFails ==
    [][\A p \in DOMAIN status :
          (AtStep(p, "triples")
              /\ (status'[p] # status[p] \/ idx'[p] # idx[p] \/ prep'[p] # prep[p]))
            => /\ status'[p] = "error"
               /\ prep'[p].triples = prep[p].triples
               /\ chan' = chan
               /\ synchronized_prng'[p] = synchronized_prng[p]]_vars

\* party 1 asked for triples after a round of two multiplications and failed
C15_Witness ==
    /\ status[1] = "error"
    /\ idx[1] = 4
    /\ script[5].op = "triples"
    /\ Len(hist[1].prepared) = 2
    /\ prep[1].triples = <<>>

C14_BitSharesSumToBit ==
    \A i \in 1 .. Len(prep[0].bits) :
        i <= Len(prep[1].bits) =>
            FAdd(prep[0].bits[i], prep[1].bits[i]) \in {0, 1}

(***************************************************************************)
(* Two worker threads per party, each with its own PPMLACProtocol instance *)
(* and its own connection to the peer thread.  synchronized_prng and       *)
(* local_prng are static members: one per process, used by both instances  *)
(* without a lock.  The steps of one call are taken together; interleaving *)
(* the draws of two calls would only add behaviours.                       *)
(***************************************************************************)
Threads == {1, 2}

Inst == Parties \X Threads

\* both threads run one multiplication round of the same size
ThreadScripts == {[t \in Threads |-> Step("mul", n)] : n \in 1 .. MaxMuls}

InitThreads ==
    /\ machine = "ppmlac"
    /\ synchronized_prng = [p \in Parties |-> PPMLACPrep_basic_setup]
    /\ local_prng = [p \in Parties |-> PRNG_SetSeed(0)]
    /\ proto = [i \in Inst |-> PPMLACProtocol_new]
    /\ prep = [p \in Parties |-> NoPrep]
    /\ fake = FakeProtocol_new
    /\ output = [p \in Parties |-> NoOutput]
    /\ input = [p \in Parties |-> NoInput]
    /\ chan = [t \in Threads |-> <<>>]
    /\ script \in ThreadScripts
    /\ idx = [i \in Inst |-> 0]
    /\ phase = [i \in Inst |-> "new"]
    /\ status = [i \in Inst |-> "ok"]
    /\ hist = [i \in Inst |-> NoHist]

\* PPMLACProtocol(Player& P) in thread i[2] of party i[1]
ThrConstruct(i) ==
    /\ phase[i] = "new"
    /\ LET seed == PRNG_get_octets(synchronized_prng[i[1]])
       IN  /\ synchronized_prng' = [synchronized_prng EXCEPT ![i[1]] = seed.prng]
           /\ local_prng' = [local_prng EXCEPT ![i[1]] = PRNG_SetSeed(seed.val)]
    /\ proto' = [proto EXCEPT ![i] = PPMLACProtocol_new]
    /\ phase' = [phase EXCEPT ![i] = "idle"]
    /\ UNCHANGED <<machine, prep, fake, output, input, chan, script, idx,
                   status, hist>>

\* init_mul() of instance i
ThrInitMul(i) ==
    /\ phase[i] = "idle"
    /\ proto' = [proto EXCEPT ![i] = PPMLACProtocol_init_mul(@)]
    /\ phase' = [phase EXCEPT ![i] = "accum"]
    /\ UNCHANGED <<machine, synchronized_prng, local_prng, prep, fake, output,
                   input, chan, script, idx, status, hist>>

\* prepare_mul(x, y) of instance i
ThrPrepareMul(i, x, y) ==
    /\ phase[i] = "accum"
    /\ Len(hist[i].prepared) < script[i[2]].n
    /\ proto' = [proto EXCEPT ![i] = PPMLACProtocol_prepare_mul(@, x, y)]
    /\ hist' = [hist EXCEPT ![i].prepared = Append(@, <<x, y>>)]
    /\ UNCHANGED <<machine, synchronized_prng, local_prng, prep, fake, output,
                   input, chan, script, idx, phase, status>>

\* exchange() of party 0's instance in thread t
ThrExchangeAlice(t) ==
    /\ phase[<<0, t>>] = "accum"
    /\ Len(hist[<<0, t>>].prepared) = script[t].n
    /\ LET r == Alice_loop(proto[<<0, t>>], synchronized_prng[0], 1)
       IN  /\ proto' = [proto EXCEPT ![<<0, t>>] = r.inst]
           /\ synchronized_prng' = [synchronized_prng EXCEPT ![0] = r.g]
           /\ chan' = [chan EXCEPT ![t] = Append(@, r.inst.os_send.data)]
    /\ hist' = [hist EXCEPT ![<<0, t>>].snap = synchronized_prng[0]]
    /\ phase' = [phase EXCEPT ![<<0, t>>] = "ready"]
    /\ UNCHANGED <<machine, local_prng, prep, fake, output, input, script, idx,
                   status>>

\* exchange() of party 1's instance in thread t
ThrExchangeBob(t) ==
    /\ phase[<<1, t>>] = "accum"
    /\ Len(hist[<<1, t>>].prepared) = script[t].n
    /\ chan[t] # <<>>
    /\ LET rcv == [proto[<<1, t>>] EXCEPT
                      !.os_receive = [data |-> Head(chan[t]), rd |-> 0]]
           r == Bob_loop(rcv, synchronized_prng[1], 1)
       IN  /\ proto' = [proto EXCEPT ![<<1, t>>] = r.inst]
           /\ synchronized_prng' = [synchronized_prng EXCEPT ![1] = r.g]
           /\ status' = [status EXCEPT ![<<1, t>>] = IF r.err THEN "error" ELSE "ok"]
    /\ hist' = [hist EXCEPT ![<<1, t>>].snap = synchronized_prng[1]]
    /\ chan' = [chan EXCEPT ![t] = Tail(@)]
    /\ phase' = [phase EXCEPT ![<<1, t>>] = "ready"]
    /\ UNCHANGED <<machine, local_prng, prep, fake, output, input, script, idx>>

NextThreads ==
    \/ \E i \in Inst : ThrConstruct(i)
    \/ \E i \in Inst : ThrInitMul(i)
    \/ \E i \in Inst :
          \E o \in NextOperands(hist[i].prepared) : ThrPrepareMul(i, o[1], o[2])
    \/ \E t \in Threads : ThrExchangeAlice(t)
    \/ \E t \in Threads : ThrExchangeBob(t)

SpecThreads == InitThreads /\ [][NextThreads]_vars

\* C17: the two instances of a party share no state but the channel, so
\* each instance stays synchronized with its peer instance: whenever both
\* instances of a thread have exchanged, they entered exchange with the
\* stream in the same state and their result shares add up to the products.
C17_InstancesIndependent ==
    \A t \in Threads :
        (phase[<<0, t>>] = "ready" /\ phase[<<1, t>>] = "ready") =>
            /\ hist[<<0, t>>].snap = hist[<<1, t>>].snap
            /\ \A k \in 1 .. Len(hist[<<0, t>>].prepared) :
                  FAdd(proto[<<0, t>>].results[k], proto[<<1, t>>].results[k])
                     = FMul(Secret(hist[<<0, t>>].prepared[k][1],
                                   hist[<<1, t>>].prepared[k][1]),
                            Secret(hist[<<0, t>>].prepared[k][2],
                                   hist[<<1, t>>].prepared[k][2]))

\* C18: right after exchange, before any finalize_mul of the round, the
\* result buffer of a party holds exactly as many entries as prepare_mul
\* calls were made since the init_mul of the round, whatever the size of
\* the batch (0 included) and whatever earlier rounds left behind.
C18_OneResultPerPrepare ==
    \A p \in Parties :
        (Exchanged(p) /\ hist[p].returned = <<>>) =>
            /\ Len(proto[p].results) = Len(hist[p].prepared)
            /\ Len(proto[p].results) = script[idx[p]].n

\* party 1 has exchanged an empty batch in a round that follows a round of
\* one multiplication
C18_Witness ==
    /\ Exchanged(1)
    /\ idx[1] = 3
    /\ script[2] = Step("mul", 1)
    /\ script[3] = Step("mul", 0)
    /\ hist[1].prepared = <<>>
    /\ proto[1].results = <<>>

\* party p takes the step exchange() of PPMLACProtocol
ExchangeStep(p) ==
    /\ machine = "ppmlac"
    /\ phase[p] = "accum"
    /\ phase'[p] = "ready"

\* C19 as stated: the exchange of a batch puts exactly one message on the
\* way from party 0 to party 1 and exactly one on the way from party 1 to
\* party 0.
C19_OneMessageEachWay ==
    [][/\ ExchangeStep(0) => Len(chan'[<<0, 1>>]) = Len(chan[<<0, 1>>]) + 1
       /\ ExchangeStep(1) => Len(chan'[<<1, 0>>]) = Len(chan[<<1, 0>>]) + 1]_vars

\* C19 as amended: the exchange of a batch of any size uses exactly one
\* message from party 0 to party 1, holding the two masked operands of every
\* entry, which party 1's exchange takes off the channel; no message goes
\* from party 1 to party 0.
C19_OneMessageToReceiver ==
    [][/\ chan[<<1, 0>>] = <<>>
       /\ ExchangeStep(0) =>
             /\ Len(chan'[<<0, 1>>]) = Len(chan[<<0, 1>>]) + 1
             /\ Len(chan'[<<0, 1>>][Len(chan'[<<0, 1>>])]) = 2 * Len(hist[0].prepared)
             /\ chan'[<<1, 0>>] = <<>>
       /\ ExchangeStep(1) =>
             /\ chan[<<0, 1>>] # <<>>
             /\ chan'[<<0, 1>>] = Tail(chan[<<0, 1>>])
             /\ chan'[<<1, 0>>] = <<>>]_vars

\* both parties have exchanged a batch of two multiplications and nothing
\* is left on either channel
C19_Witness ==
    /\ Exchanged(0)
    /\ Exchanged(1)
    /\ idx[0] = idx[1]
    /\ Len(hist[0].prepared) = 2
    /\ Len(hist[1].prepared) = 2
    /\ chan[<<0, 1>>] = <<>>
    /\ chan[<<1, 0>>] = <<>>

\* no unread masked value of the other party is buffered at party p
NoUnread(p) == os_left(input[p].buffered_input_streams[Other(p)]) = 0

C21_ExchangeClearsSecrets ==
    [][\A p \in Parties :
          (phase[p] = "receive" /\ phase'[p] = "queue" /\ status'[p] = "ok")
              => output'[p].secrets = <<>>]_vars

\* party 0 has returned from an exchange it entered with two queued shares
C21_Witness ==
    /\ status[0] = "ok"
    /\ phase[0] = "queue"
    /\ hist[0].fresh
    /\ Len(hist[0].batches[hist[0].done]) = 2
    /\ output[0].secrets = <<>>

(***************************************************************************)
(* PPMLACProtocol called in any order: the class has no state variable     *)
(* that restricts the order of init_mul, prepare_mul, exchange and         *)
(* finalize_mul (finalize_mul on an empty result buffer is left out here). *)
(***************************************************************************)
NoCallHist == [last |-> "new",  \* the call made last
               calls |-> 0,     \* calls made so far
               fresh |-> 0,     \* prepare_mul calls since the last init_mul or exchange
               queued |-> 0,    \* Len(x_vec) before the last call
               held |-> 0]      \* Len(results) before the last call

\* the history of party p after its call op
Called(p, op) ==
    [hist[p] EXCEPT !.last = op,
                    !.calls = @ + 1,
                    !.fresh = IF op = "prepare_mul" THEN @ + 1
                              ELSE IF op = "finalize_mul" THEN @ ELSE 0,
                    !.queued = Len(proto[p].x_vec),
                    !.held = Len(proto[p].results)]

\* state after basic_setup and the construction of one PPMLACProtocol at
\* each party
InitCalls ==
    /\ machine = "ppmlac"
    /\ LET seed == PRNG_get_octets(PPMLACPrep_basic_setup)
       IN  /\ synchronized_prng = [p \in Parties |-> seed.prng]
           /\ local_prng = [p \in Parties |-> PRNG_SetSeed(seed.val)]
    /\ proto = [p \in Parties |-> PPMLACProtocol_new]
    /\ prep = [p \in Parties |-> NoPrep]
    /\ fake = FakeProtocol_new
    /\ output = [p \in Parties |-> NoOutput]
    /\ input = [p \in Parties |-> NoInput]
    /\ chan = NoChan
    /\ script = <<>>
    /\ idx = [p \in Parties |-> 0]
    /\ phase = [p \in Parties |-> "any"]
    /\ status = [p \in Parties |-> "ok"]
    /\ hist = [p \in Parties |-> NoCallHist]

\* init_mul()
CallInitMul(p) ==
    /\ status[p] = "ok"
    /\ hist[p].calls < MaxCalls
    /\ proto' = [proto EXCEPT ![p] = PPMLACProtocol_init_mul(@)]
    /\ hist' = [hist EXCEPT ![p] = Called(p, "init_mul")]
    /\ UNCHANGED <<machine, synchronized_prng, local_prng, prep, fake, output,
                   input, chan, script, idx, phase, status>>

\* prepare_mul(x, y)
CallPrepareMul(p, x, y) ==
    /\ status[p] = "ok"
    /\ hist[p].calls < MaxCalls
    /\ proto' = [proto EXCEPT ![p] = PPMLACProtocol_prepare_mul(@, x, y)]
    /\ hist' = [hist EXCEPT ![p] = Called(p, "prepare_mul")]
    /\ UNCHANGED <<machine, synchronized_prng, local_prng, prep, fake, output,
                   input, chan, script, idx, phase, status>>

\* exchange() of party 0
CallExchangeAlice ==
    /\ status[0] = "ok"
    /\ hist[0].calls < MaxCalls
    /\ LET r == Alice_loop(proto[0], synchronized_prng[0], 1)
       IN  /\ proto' = [proto EXCEPT ![0] = r.inst]
           /\ synchronized_prng' = [synchronized_prng EXCEPT ![0] = r.g]
           /\ chan' = [chan EXCEPT ![<<0, 1>>] = Append(@, r.inst.os_send.data)]
    /\ hist' = [hist EXCEPT ![0] = Called(0, "exchange")]
    /\ UNCHANGED <<machine, local_prng, prep, fake, output, input, script, idx,
                   phase, status>>

\* exchange() of party 1
CallExchangeBob ==
    /\ status[1] = "ok"
    /\ hist[1].calls < MaxCalls
    /\ chan[<<0, 1>>] # <<>>
    /\ LET rcv == [proto[1] EXCEPT !.os_receive = [data |-> Head(chan[<<0, 1>>]), rd |-> 0]]
           r == Bob_loop(rcv, synchronized_prng[1], 1)
       IN  /\ proto' = [proto EXCEPT ![1] = r.inst]
           /\ synchronized_prng' = [synchronized_prng EXCEPT ![1] = r.g]
           /\ status' = [status EXCEPT ![1] = IF r.err THEN "error" ELSE "ok"]
    /\ chan' = [chan EXCEPT ![<<0, 1>>] = Tail(@)]
    /\ hist' = [hist EXCEPT ![1] = Called(1, "exchange")]
    /\ UNCHANGED <<machine, local_prng, prep, fake, output, input, script, idx,
                   phase>>

\* finalize_mul() with a result in the buffer
CallFinalizeMul(p) ==
    /\ status[p] = "ok"
    /\ hist[p].calls < MaxCalls
    /\ proto[p].results # <<>>
    /\ proto' = [proto EXCEPT ![p] = PPMLACProtocol_finalize_mul(@).inst]
    /\ hist' = [hist EXCEPT ![p] = Called(p, "finalize_mul")]
    /\ UNCHANGED <<machine, synchronized_prng, local_prng, prep, fake, output,
                   input, chan, script, idx, phase, status>>

\* the operands of the next prepare_mul of party p: the first pair is
\* free, each further one is the one before raised by one
CallOperands(p) ==
    IF proto[p].x_vec = <<>> THEN Operands
    ELSE {<<(proto[p].x_vec[Len(proto[p].x_vec)] + 1) % PRIME,
            (proto[p].y_vec[Len(proto[p].y_vec)] + 1) % PRIME>>}

NextCalls ==
    \/ \E p \in Parties : CallInitMul(p)
    \/ \E p \in Parties : \E o \in CallOperands(p) : CallPrepareMul(p, o[1], o[2])
    \/ CallExchangeAlice
    \/ CallExchangeBob
    \/ \E p \in Parties : CallFinalizeMul(p)

SpecCalls == InitCalls /\ [][NextCalls]_vars

\* party p makes the call op in this step
Calls(p, op) == hist'[p].calls = hist[p].calls + 1 /\ hist'[p].last = op

\* C22: from any state, init_mul leaves x_vec, y_vec, results, os_send and
\* os_receive empty, also when multiplications are queued and not exchanged
\* or results of the round before are not yet returned.
C22_InitMulClears ==
    [][\A p \in Parties :
          Calls(p, "init_mul") => proto'[p] = PPMLACProtocol_new]_vars

\* party 1 has called init_mul while it held a result not yet returned and
\* a multiplication queued after the exchange
C22_Witness ==
    /\ hist[1].last = "init_mul"
    /\ hist[1].held = 1
    /\ hist[1].queued = 2
    /\ proto[1] = PPMLACProtocol_new

\* C23: prepare_mul puts nothing on a channel and takes nothing off it,
\* leaves synchronized_prng, the result buffer and both message buffers as
\* they are, and appends exactly one operand to each of x_vec and y_vec.
C23_PrepareMulFrame ==
    [][\A p \in Parties :
          Calls(p, "prepare_mul") =>
              /\ chan' = chan
              /\ synchronized_prng' = synchronized_prng
              /\ local_prng' = local_prng
              /\ proto'[p].results = proto[p].results
              /\ proto'[p].os_send = proto[p].os_send
              /\ proto'[p].os_receive = proto[p].os_receive
              /\ Len(proto'[p].x_vec) = Len(proto[p].x_vec) + 1
              /\ Len(proto'[p].y_vec) = Len(proto[p].y_vec) + 1
              /\ SubSeq(proto'[p].x_vec, 1, Len(proto[p].x_vec)) = proto[p].x_vec
              /\ SubSeq(proto'[p].y_vec, 1, Len(proto[p].y_vec)) = proto[p].y_vec]_vars

\* party 1 has called prepare_mul while it held a result, a multiplication
\* was queued and a message of party 0 was in flight
C23_Witness ==
    /\ hist[1].last = "prepare_mul"
    /\ hist[1].held = 1
    /\ hist[1].queued = 1
    /\ Len(proto[1].x_vec) = 2
    /\ Len(proto[1].results) = 1
    /\ chan[<<0, 1>>] # <<>>

\* C30: in any sequence of calls, each operand pair given to prepare_mul is
\* masked and sent in exactly one exchange and yields exactly one result:
\* an exchange adds one result per prepare_mul call made since the exchange
\* or init_mul before it, and party 0's message holds the two masked
\* operands of exactly those calls.
C30_EachPairExchangedOnce ==
    [][\A p \in Parties :
          (Calls(p, "exchange") /\ status'[p] = "ok") =>
              /\ Len(proto'[p].results) = Len(proto[p].results) + hist[p].fresh
              /\ p = 0 =>
                    Len(chan'[<<0, 1>>][Len(chan'[<<0, 1>>])]) = 2 * hist[0].fresh]_vars

(***************************************************************************)
(* Refills of the bit buffer of PPMLACPrep under a configured batch size   *)
(* (script[1].n), and the requests served from the buffer.                 *)
(***************************************************************************)
\* buffer_bits() under the configured batch size: the code refills with
\* n = 1000 bits and does not read the configuration
PPMLACPrep_buffer_bits(bits, g, batch_size) == buffer_bits_loop(bits, g, N_BITS)

BitScripts == {<<Step("bits", b)>> : b \in 1 .. MaxBatch}

NoBitHist == [refills |-> 0,   \* refills so far
              served |-> 0,    \* requests served since the last refill
              before |-> 0]    \* Len(bits) before the last refill

InitBits ==
    /\ machine = "ppmlac"
    /\ LET seed == PRNG_get_octets(PPMLACPrep_basic_setup)
       IN  /\ synchronized_prng = [p \in Parties |-> seed.prng]
           /\ local_prng = [p \in Parties |-> PRNG_SetSeed(seed.val)]
    /\ proto = [p \in Parties |-> PPMLACProtocol_new]
    /\ prep = [p \in Parties |-> NoPrep]
    /\ fake = FakeProtocol_new
    /\ output = [p \in Parties |-> NoOutput]
    /\ input = [p \in Parties |-> NoInput]
    /\ chan = NoChan
    /\ script \in BitScripts
    /\ idx = [p \in Parties |-> 0]
    /\ phase = [p \in Parties |-> "idle"]
    /\ status = [p \in Parties |-> "ok"]
    /\ hist = [p \in Parties |-> NoBitHist]

\* a request for a bit that finds the buffer empty: buffer_bits()
BitsRefill(p) ==
    /\ prep[p].bits = <<>>
    /\ LET r == PPMLACPrep_buffer_bits(prep[p].bits, synchronized_prng[p], script[1].n)
       IN  /\ prep' = [prep EXCEPT ![p].bits = r.bits]
           /\ synchronized_prng' = [synchronized_prng EXCEPT ![p] = r.g]
    /\ hist' = [hist EXCEPT ![p].refills = @ + 1, ![p].served = 0,
                            ![p].before = Len(prep[p].bits)]
    /\ UNCHANGED <<machine, local_prng, proto, fake, output, input, chan,
                   script, idx, phase, status>>

\* a request for a bit served from the buffer: the last entry is taken
BitsGet(p) ==
    /\ prep[p].bits # <<>>
    /\ hist[p].served <= script[1].n
    /\ prep' = [prep EXCEPT ![p].bits = SubSeq(@, 1, Len(@) - 1)]
    /\ hist' = [hist EXCEPT ![p].served = @ + 1]
    /\ UNCHANGED <<machine, synchronized_prng, local_prng, proto, fake, output,
                   input, chan, script, idx, phase, status>>

NextBits ==
    \/ \E p \in Parties : BitsRefill(p)
    \/ \E p \in Parties : BitsGet(p)

SpecBits == InitBits /\ [][NextBits]_vars

\* C24: one refill appends as many bits as the configured batch size, so
\* after a refill exactly that many requests are served before the buffer
\* is empty again.
C24_RefillIsBatchSize ==
    \A p \in Parties :
        hist[p].refills > 0 =>
            /\ Len(prep[p].bits) + hist[p].served = hist[p].before + script[1].n
            /\ hist[p].served <= script[1].n

(***************************************************************************)
(* Serialization: PPMLACShare (src/Protocols/SemiShare.h), FixedVec and    *)
(* gfp_ (src/unnamed/part_004), Share_ (src/Protocols/Share.hpp).  Here    *)
(* a stream holds bytes; a gfp_ value takes size() bytes.                  *)
(***************************************************************************)
\* sizeof(mp_limb_t) and the number t() of limbs of the field
mp_limb_t_size == 8

gfp_t == 1

\* gfp_::size()
gfp_size == gfp_t * mp_limb_t_size

\* the n low bytes of v, lowest first
RECURSIVE le_bytes(_, _)
le_bytes(v, n) == IF n = 0 THEN <<>> ELSE <<v % 256>> \o le_bytes(v \div 256, n - 1)

\* the number with the bytes bs, lowest first
RECURSIVE le_value(_)
le_value(bs) == IF bs = <<>> THEN 0 ELSE Head(bs) + 256 * le_value(Tail(bs))

\* gfp_::pack: a.pack(o) writes the limbs of the value
gfp_pack(v, os) == [os EXCEPT !.data = @ \o le_bytes(v, gfp_size)]

\* gfp_::unpack: a.unpack(o) reads the limbs of the value
gfp_unpack(os) ==
    [val |-> le_value(SubSeq(os.data, os.rd + 1, os.rd + gfp_size)),
     os |-> [os EXCEPT !.rd = @ + gfp_size]]

\* PPMLACShare::size()
PPMLACShare_size == gfp_size

\* PPMLACShare::pack(os): value.pack(os)
PPMLACShare_pack(share, os) == gfp_pack(share.value, os)

\* PPMLACShare::unpack(os): value.unpack(os)
PPMLACShare_unpack(share, os) ==
    LET r == gfp_unpack(os)
    IN  [obj |-> [share EXCEPT !.value = r.val], os |-> r.os]

\* FixedVec<T, L>::size()
FixedVec_size(L) == L * gfp_size

\* FixedVec::pack(os): for (auto& x : v) x.pack(os), from entry i on
RECURSIVE FixedVec_pack(_, _, _)
FixedVec_pack(vec, os, i) ==
    IF i > Len(vec.v) THEN os
    ELSE FixedVec_pack(vec, gfp_pack(vec.v[i], os), i + 1)

RECURSIVE FixedVec_unpack_short(_, _, _)
FixedVec_unpack_short(vec, os, i) ==
    IF i >= Len(vec.v) THEN [obj |-> vec, os |-> os]
    ELSE LET r == gfp_unpack(os)
         IN  FixedVec_unpack_short([vec EXCEPT !.v[i] = r.val], r.os, i + 1)

\* FixedVec::unpack(os): for (auto& x : v) x.unpack(os), from entry i on
RECURSIVE FixedVec_unpack(_, _, _)
FixedVec_unpack(vec, os, i) ==
    IF i > Len(vec.v) THEN [obj |-> vec, os |-> os]
    ELSE LET r == gfp_unpack(os)
         IN  FixedVec_unpack([vec EXCEPT !.v[i] = r.val], r.os, i + 1)

\* Share_::pack(os, full): a.pack(os, full); if (full) mac.pack(os)
Share_pack(sh, os, full) ==
    LET o1 == gfp_pack(sh.a, os)
    IN  IF full THEN gfp_pack(sh.mac, o1) ELSE o1

\* Share_::unpack(os, full): a.unpack(os, full); if (full) mac.unpack(os)
Share_unpack(sh, os, full) ==
    LET r1 == gfp_unpack(os)
    IN  IF full
        THEN LET r2 == gfp_unpack(r1.os)
             IN  [obj |-> [sh EXCEPT !.a = r1.val, !.mac = r2.val], os |-> r2.os]
        ELSE [obj |-> [sh EXCEPT !.a = r1.val], os |-> r1.os]

\* a record to serialize: the object, its type and the flag full
Rec(type, obj, full) == [type |-> type, obj |-> obj, full |-> full]

\* L field elements: the first is a, each further one the one before plus 1
ChainOf(a, L) == [i \in 1 .. L |-> (a + i - 1) % PRIME]

PackRecords ==
    {Rec("PPMLACShare", [value |-> a], FALSE) : a \in 0 .. MaxOperand}
    \cup {Rec("FixedVec", [v |-> ChainOf(a, L)], FALSE) :
             a \in 0 .. MaxOperand, L \in 1 .. MaxVecLen}
    \cup {Rec("Share_", [a |-> a, mac |-> (a + 1) % PRIME], full) :
             a \in 0 .. MaxOperand, full \in BOOLEAN}

\* a default-constructed object of the type of rec: gfp_() is zero
DefaultOf(rec) ==
    IF rec.type = "PPMLACShare" THEN [value |-> 0]
    ELSE IF rec.type = "FixedVec" THEN [v |-> [i \in 1 .. Len(rec.obj.v) |-> 0]]
    ELSE [a |-> 0, mac |-> 0]

\* rec.obj.pack(os)
PackRec(rec, os) ==
    IF rec.type = "PPMLACShare" THEN PPMLACShare_pack(rec.obj, os)
    ELSE IF rec.type = "FixedVec" THEN FixedVec_pack(rec.obj, os, 1)
    ELSE Share_pack(rec.obj, os, rec.full)

\* unpack(os) on a default-constructed object of the type of rec
UnpackRec(rec, os) ==
    IF rec.type = "PPMLACShare" THEN PPMLACShare_unpack(DefaultOf(rec), os)
    ELSE IF rec.type = "FixedVec" THEN FixedVec_unpack(DefaultOf(rec), os, 1)
    ELSE Share_unpack(DefaultOf(rec), os, rec.full)

NoPackHist == [written |-> <<>>,   \* stream length after each pack
               unpacked |-> <<>>,  \* the objects unpacked
               read |-> <<>>]      \* read position after each unpack

\* party 0 packs the records of script into its os_send, and the records
\* are unpacked from the same stream, in order
InitPack ==
    /\ machine = "ppmlac"
    /\ synchronized_prng = [p \in Parties |-> PPMLACPrep_basic_setup]
    /\ local_prng = [p \in Parties |-> PRNG_SetSeed(0)]
    /\ proto = [p \in Parties |-> PPMLACProtocol_new]
    /\ prep = [p \in Parties |-> NoPrep]
    /\ fake = FakeProtocol_new
    /\ output = [p \in Parties |-> NoOutput]
    /\ input = [p \in Parties |-> NoInput]
    /\ chan = NoChan
    /\ script \in SeqsUpTo(PackRecords, MaxRecords) \ {<<>>}
    /\ idx = [p \in Parties |-> 0]
    /\ phase = [p \in Parties |-> "idle"]
    /\ status = [p \in Parties |-> "ok"]
    /\ hist = [p \in Parties |-> NoPackHist]

\* pack of the next record
PackNext ==
    /\ idx[0] < Len(script)
    /\ LET os == PackRec(script[idx[0] + 1], proto[0].os_send)
       IN  /\ proto' = [proto EXCEPT ![0].os_send = os]
           /\ hist' = [hist EXCEPT ![0].written = Append(@, Len(os.data))]
    /\ idx' = [idx EXCEPT ![0] = @ + 1]
    /\ UNCHANGED <<machine, synchronized_prng, local_prng, prep, fake, output,
                   input, chan, script, phase, status>>

\* unpack of the next record that has been packed
UnpackNext ==
    /\ idx[1] < idx[0]
    /\ LET r == UnpackRec(script[idx[1] + 1], proto[0].os_send)
       IN  /\ proto' = [proto EXCEPT ![0].os_send = r.os]
           /\ hist' = [hist EXCEPT ![1].unpacked = Append(@, r.obj),
                                   ![1].read = Append(@, r.os.rd)]
    /\ idx' = [idx EXCEPT ![1] = @ + 1]
    /\ UNCHANGED <<machine, synchronized_prng, local_prng, prep, fake, output,
                   input, chan, script, phase, status>>

NextPack == PackNext \/ UnpackNext

SpecPack == InitPack /\ [][NextPack]_vars

\* the bytes the k-th pack wrote
WrittenBy(k) == hist[0].written[k] - (IF k = 1 THEN 0 ELSE hist[0].written[k - 1])

\* the k-th unpack consumed exactly the bytes of the k-th pack, and these
\* are size() bytes for PPMLACShare and L * T::size() for FixedVec
ConsumedAsWritten(k) ==
    /\ hist[1].read[k] = hist[0].written[k]
    /\ script[k].type = "PPMLACShare" => WrittenBy(k) = PPMLACShare_size
    /\ script[k].type = "FixedVec" => WrittenBy(k) = FixedVec_size(Len(script[k].obj.v))

NoHemiPrep == [bits |-> <<>>, dabits |-> <<>>,
               two_party_prep |-> [dabits |-> <<>>, made |-> 0]]

\* SemiPrep::buffer_dabits with buffer_size n: n new daBits are appended
SemiPrep_buffer_dabits(sub, n) ==
    [dabits |-> sub.dabits \o [i \in 1 .. n |-> <<sub.made + i, sub.made + i>>],
     made |-> sub.made + n]

HemiPrep_buffer_bits_no_clear(hp, n) ==
    LET sub == SemiPrep_buffer_dabits(hp.two_party_prep, n)
    IN  [hp EXCEPT !.bits = @ \o [i \in 1 .. Len(sub.dabits) |-> sub.dabits[i][1]],
                   !.two_party_prep = sub]

\* HemiPrep::buffer_bits, two parties, batch size n
HemiPrep_buffer_bits(hp, n) ==
    LET sub == SemiPrep_buffer_dabits(hp.two_party_prep, n)
    IN  [hp EXCEPT !.bits = @ \o [i \in 1 .. Len(sub.dabits) |-> sub.dabits[i][1]],
                   !.two_party_prep = [sub EXCEPT !.dabits = <<>>]]

\* HemiPrep::buffer_dabits, two parties, batch size n
HemiPrep_buffer_dabits(hp, n) ==
    LET sub == SemiPrep_buffer_dabits(hp.two_party_prep, n)
    IN  [hp EXCEPT !.dabits = sub.dabits,
                   !.two_party_prep = [sub EXCEPT !.dabits = <<>>]]

\* the calls a program makes on the preparation, the same at both parties
HemiOps == {"buffer_bits", "buffer_dabits", "get_bit", "get_dabit"}

HemiScripts ==
    {[i \in 1 .. Len(ops) |-> Step(ops[i], b)] :
        ops \in SeqsUpTo(HemiOps, MaxCalls), b \in 1 .. MaxBatch}

NoHemiHist == [bits |-> <<>>,     \* the bits handed out
               dabits |-> <<>>]   \* the daBits handed out

InitHemi ==
    /\ machine = "hemi"
    /\ synchronized_prng = [p \in Parties |-> PRNG_SetSeed(0)]
    /\ local_prng = [p \in Parties |-> PRNG_SetSeed(0)]
    /\ proto = [p \in Parties |-> PPMLACProtocol_new]
    /\ prep = [p \in Parties |-> NoHemiPrep]
    /\ fake = FakeProtocol_new
    /\ output = [p \in Parties |-> NoOutput]
    /\ input = [p \in Parties |-> NoInput]
    /\ chan = NoChan
    /\ script \in HemiScripts
    /\ idx = [p \in Parties |-> 0]
    /\ phase = [p \in Parties |-> "idle"]
    /\ status = [p \in Parties |-> "ok"]
    /\ hist = [p \in Parties |-> NoHemiHist]

\* party p is about to make the call op
HemiAt(p, op) == idx[p] < Len(script) /\ script[idx[p] + 1].op = op

\* HemiPrep::buffer_bits()
HemiBufferBits(p) ==
    /\ HemiAt(p, "buffer_bits")
    /\ prep' = [prep EXCEPT ![p] = HemiPrep_buffer_bits(@, script[idx[p] + 1].n)]
    /\ idx' = [idx EXCEPT ![p] = @ + 1]
    /\ UNCHANGED <<machine, synchronized_prng, local_prng, proto, fake, output,
                   input, chan, script, phase, status, hist>>

\* HemiPrep::buffer_dabits()
HemiBufferDabits(p) ==
    /\ HemiAt(p, "buffer_dabits")
    /\ prep' = [prep EXCEPT ![p] = HemiPrep_buffer_dabits(@, script[idx[p] + 1].n)]
    /\ idx' = [idx EXCEPT ![p] = @ + 1]
    /\ UNCHANGED <<machine, synchronized_prng, local_prng, proto, fake, output,
                   input, chan, script, phase, status, hist>>

\* a request for a bit: buffer_bits() if the buffer is empty, then the last
\* entry is handed out
HemiGetBit(p) ==
    /\ HemiAt(p, "get_bit")
    /\ LET hp == IF prep[p].bits = <<>>
                 THEN HemiPrep_buffer_bits(prep[p], script[idx[p] + 1].n)
                 ELSE prep[p]
       IN  /\ prep' = [prep EXCEPT ![p] =
                          [hp EXCEPT !.bits = SubSeq(@, 1, Len(@) - 1)]]
           /\ hist' = [hist EXCEPT ![p].bits = Append(@, hp.bits[Len(hp.bits)])]
    /\ idx' = [idx EXCEPT ![p] = @ + 1]
    /\ UNCHANGED <<machine, synchronized_prng, local_prng, proto, fake, output,
                   input, chan, script, phase, status>>

\* a request for a daBit: buffer_dabits() if the buffer is empty, then the
\* last entry is handed out
HemiGetDabit(p) ==
    /\ HemiAt(p, "get_dabit")
    /\ LET hp == IF prep[p].dabits = <<>>
                 THEN HemiPrep_buffer_dabits(prep[p], script[idx[p] + 1].n)
                 ELSE prep[p]
       IN  /\ prep' = [prep EXCEPT ![p] =
                          [hp EXCEPT !.dabits = SubSeq(@, 1, Len(@) - 1)]]
           /\ hist' = [hist EXCEPT ![p].dabits = Append(@, hp.dabits[Len(hp.dabits)])]
    /\ idx' = [idx EXCEPT ![p] = @ + 1]
    /\ UNCHANGED <<machine, synchronized_prng, local_prng, proto, fake, output,
                   input, chan, script, phase, status>>

NextHemi ==
    \/ \E p \in Parties : HemiBufferBits(p)
    \/ \E p \in Parties : HemiBufferDabits(p)
    \/ \E p \in Parties : HemiGetBit(p)
    \/ \E p \in Parties : HemiGetDabit(p)

SpecHemi == InitHemi /\ [][NextHemi]_vars

\* the productions of the sub-preparation that party p holds in a buffer or
\* has handed out, one entry per holding
Holdings(p) ==
    prep[p].bits \o [i \in 1 .. Len(prep[p].dabits) |-> prep[p].dabits[i][1]]
        \o hist[p].bits
        \o [i \in 1 .. Len(hist[p].dabits) |-> hist[p].dabits[i][1]]

\* C26: whenever buffer_bits or buffer_dabits has returned, the daBit buffer
\* of the sub-preparation is empty, and no daBit the sub-preparation
\* produced is held twice: not in both buffers, not twice in one, and not in
\* a buffer after it was handed out, over any sequence of calls.
C26_NoDabitTwice ==
    \A p \in Parties :
        /\ prep[p].two_party_prep.dabits = <<>>
        /\ \A i, j \in 1 .. Len(Holdings(p)) :
              i # j => Holdings(p)[i] # Holdings(p)[j]
        /\ \A i \in 1 .. Len(Holdings(p)) :
              Holdings(p)[i] \in 1 .. prep[p].two_party_prep.made

\* party 0 has refilled bits and then daBits and has handed out one of each
C26_Witness ==
    /\ hist[0].bits # <<>>
    /\ hist[0].dabits # <<>>
    /\ prep[0].bits # <<>>
    /\ prep[0].dabits # <<>>
    /\ prep[0].two_party_prep.made >= 4

(***************************************************************************)
(* HemiPrep::buffer_triples, src/unnamed/part_002, for 2..MaxPlayers       *)
(* parties.  A plaintext is the sequence of its slots.  Each party holds   *)
(* one Multiplier per offset 1..n-1; the multiplier with offset o works on *)
(* the ciphertext of player my_num - o.                                    *)
(***************************************************************************)
\* the outcome of a.randomize(G) and b.randomize(G) at party p: slot s of a
\* is a0 + p*p + s, slot s of b is b0 + p*(p+1) + s
TripleInputs ==
    {[a0 |-> a0, b0 |-> b0, slots |-> m] :
        a0 \in 0 .. MaxOperand, b0 \in 0 .. MaxOperand, m \in 1 .. MaxVecLen}

RandomA(p) == [s \in 1 .. script.slots |-> (script.a0 + p * p + s) % PRIME]

RandomB(p) == [s \in 1 .. script.slots |-> (script.b0 + p * (p + 1) + s) % PRIME]

Plaintext_mul_zero(a, b) == [s \in 1 .. Len(a) |-> 0]

\* c.mul(a, b): the product slot by slot
Plaintext_mul(a, b) == [s \in 1 .. Len(a) |-> FMul(a[s], b[s])]

\* P.get_player(-offset)
get_player(p, offset) == (p + num_players - offset) % num_players

\* the mask party q uses in slot s for its product with the ciphertext of
\* party j
Mask(q, j, s) == PRNG_block(q + 1, num_players * s + j) % PRIME

\* Multiplier::multiply_and_add(c, C, b) at party p for offset o, by its
\* contract: the cross product C * b, where C holds the a of party
\* j = my_num - o, is shared between p, which adds a mask to its c, and j,
\* which adds the product less the mask; theirs is the share p obtains in
\* the same way from the party that multiplies the ciphertext of p
Multiplier_multiply_and_add(c, p, o, theirs) ==
    LET j == get_player(p, o)
    IN  [s \in 1 .. Len(c) |-> FAdd(FAdd(c[s], Mask(p, j, s)), theirs[s])]

\* what party k passes to party p from its product with the ciphertext C
Multiplier_share_for(k, p, C, b) ==
    [s \in 1 .. Len(b) |-> FSub(FMul(C[s], b[s]), Mask(k, p, s))]

NoTriples == [a |-> <<>>, b |-> <<>>, c |-> <<>>, bundle |-> <<>>]

InitTriples ==
    /\ machine = "hemi"
    /\ \E n \in 2 .. MaxPlayers :
          /\ synchronized_prng = [p \in Players(n) |-> PRNG_SetSeed(0)]
          /\ local_prng = [p \in Players(n) |-> PRNG_SetSeed(p + 1)]
          /\ proto = [p \in Players(n) |-> NoTriples]
          /\ prep = [p \in Players(n) |-> NoPrep]
          /\ output = [p \in Players(n) |-> NoOutput]
          /\ input = [p \in Players(n) |-> NoInput]
          /\ chan = [c \in {d \in Players(n) \X Players(n) : d[1] # d[2]} |-> <<>>]
          /\ idx = [p \in Players(n) |-> 0]
          /\ phase = [p \in Players(n) |-> "idle"]
          /\ status = [p \in Players(n) |-> "ok"]
          /\ hist = [p \in Players(n) |-> NoHist]
    /\ fake = FakeProtocol_new
    /\ script \in TripleInputs

\* buffer_triples up to the sending half of P.unchecked_broadcast(bundle)
TriplesBegin(p) ==
    /\ phase[p] = "idle"
    /\ proto' = [proto EXCEPT ![p] =
                    [a |-> RandomA(p), b |-> RandomB(p),
                     c |-> Plaintext_mul(RandomA(p), RandomB(p)),
                     bundle |-> <<>>]]
    /\ chan' = [c \in DOMAIN chan |->
                   IF c[1] = p THEN Append(chan[c], RandomA(p)) ELSE chan[c]]
    /\ phase' = [phase EXCEPT ![p] = "broadcast"]
    /\ UNCHANGED <<machine, synchronized_prng, local_prng, prep, fake, output,
                   input, script, idx, status, hist>>

\* the receiving half of P.unchecked_broadcast(bundle)
TriplesReceive(p) ==
    /\ phase[p] = "broadcast"
    /\ \A q \in DOMAIN status \ {p} : chan[<<q, p>>] # <<>>
    /\ proto' = [proto EXCEPT ![p].bundle =
                    [q \in DOMAIN status |->
                        IF q = p THEN proto[p].a ELSE Head(chan[<<q, p>>])]]
    /\ chan' = [c \in DOMAIN chan |->
                   IF c[2] = p THEN Tail(chan[c]) ELSE chan[c]]
    /\ phase' = [phase EXCEPT ![p] = "multiply"]
    /\ UNCHANGED <<machine, synchronized_prng, local_prng, prep, fake, output,
                   input, script, idx, status, hist>>

\* one round of the loop over the multipliers; idx[p] multipliers are done
TriplesMultiply(p) ==
    /\ phase[p] = "multiply"
    /\ idx[p] < num_players - 1
    /\ LET k == get_player(p, num_players - (idx[p] + 1))
       IN  /\ phase[k] \in {"multiply", "done"}
           /\ proto' = [proto EXCEPT ![p].c =
                  Multiplier_multiply_and_add(@, p, idx[p] + 1,
                      Multiplier_share_for(k, p, proto[k].bundle[get_player(k, idx[p] + 1)],
                                           proto[k].b))]
    /\ idx' = [idx EXCEPT ![p] = @ + 1]
    /\ UNCHANGED <<machine, synchronized_prng, local_prng, prep, fake, output,
                   input, chan, script, phase, status, hist>>

\* the triples of all slots are pushed onto this->triples
TriplesPush(p) ==
    /\ phase[p] = "multiply"
    /\ idx[p] = num_players - 1
    /\ prep' = [prep EXCEPT ![p].triples =
                   @ \o [s \in 1 .. Len(proto[p].a) |->
                            <<proto[p].a[s], proto[p].b[s], proto[p].c[s]>>]]
    /\ phase' = [phase EXCEPT ![p] = "done"]
    /\ UNCHANGED <<machine, synchronized_prng, local_prng, proto, fake, output,
                   input, chan, script, idx, status, hist>>

NextTriples ==
    \/ \E p \in DOMAIN status : TriplesBegin(p)
    \/ \E p \in DOMAIN status : TriplesReceive(p)
    \/ \E p \in DOMAIN status : TriplesMultiply(p)
    \/ \E p \in DOMAIN status : TriplesPush(p)

SpecTriples == InitTriples /\ [][NextTriples]_vars

\* the sum over all parties of part i of the triple of slot s
RECURSIVE TripleSum(_, _, _)
TripleSum(p, s, i) ==
    IF p >= num_players THEN 0
    ELSE (prep[p].triples[s][i] + TripleSum(p + 1, s, i)) % PRIME

\* C27: when every party has pushed its triples, in every slot the sum of
\* the a shares times the sum of the b shares is the sum of the c shares.
C27_TriplesMultiply ==
    (\A p \in DOMAIN status : phase[p] = "done") =>
        \A s \in 1 .. script.slots :
            FMul(TripleSum(0, s, 1), TripleSum(0, s, 2)) = TripleSum(0, s, 3)

\* three parties have pushed triples of two slots, and in the second slot
\* neither sum of shares is zero
C27_Witness ==
    /\ num_players = 3
    /\ \A p \in DOMAIN status : phase[p] = "done" /\ Len(prep[p].triples) = 2
    /\ TripleSum(0, 2, 1) # 0
    /\ TripleSum(0, 2, 2) # 0
    /\ TripleSum(0, 2, 3) # 0

(***************************************************************************)
(* BaseMachine::batch_size, src/Processor/BaseMachine.h                    *)
(***************************************************************************)
DIV_CEIL_floor(a, b) == a \div b

\* DIV_CEIL(a, b)
DIV_CEIL(a, b) == (a + b - 1) \div b

\* the last fraction the loop looks at
MAX_FRACTION == 10

\* the loop "finding the right fraction", from i on: the first
\* DIV_CEIL(n, i) that is at most n_opts, or 0 when used_frac stays false
RECURSIVE find_fraction(_, _, _)
find_fraction(n, n_opts, i) ==
    IF i > MAX_FRACTION THEN 0
    ELSE IF DIV_CEIL(n, i) <= n_opts THEN DIV_CEIL(n, i)
    ELSE find_fraction(n, n_opts, i + 1)

Min(a, b) == IF a < b THEN a ELSE b

\* the inputs of batch_size<T>(type, buffer_size, fallback): the arguments,
\* has_program(), the usage the program declares, OnlineOptions batch_size,
\* T::default_length, and which of T::LivePrep::bits_from_dabits() and
\* dabits_from_bits() holds
BatchInputs ==
    {[type |-> t, buffer_size |-> bs, fallback |-> fb, has_program |-> hp,
      usage |-> [k \in {"BIT", "DABIT", "TRIPLE"} |->
                    IF k = t THEN u ELSE IF k = "TRIPLE" \/ t = "TRIPLE" THEN 0 ELSE v],
      batch_size |-> b, default_length |-> dl, from |-> fr] :
        t \in {"BIT", "DABIT", "TRIPLE"}, bs \in 0 .. 1, fb \in 0 .. MaxBatch,
        hp \in BOOLEAN, u \in 0 .. MaxUsage, v \in 0 .. MaxExtra,
        b \in 1 .. MaxBatch, dl \in 1 .. 2,
        fr \in {"none", "bits_from_dabits", "dabits_from_bits"}}

\* n_opts
BaseMachine_n_opts(in) ==
    IF in.buffer_size > 0 THEN in.buffer_size
    ELSE IF in.fallback > 0 THEN in.fallback
    ELSE in.batch_size * in.default_length

\* n, and buffer_size as it is after the first if-else
BaseMachine_n(in) ==
    IF in.buffer_size <= 0 /\ in.has_program
    THEN [n |-> IF in.type = "DABIT" /\ in.from = "bits_from_dabits"
                THEN in.usage["BIT"] + in.usage["DABIT"]
                ELSE IF in.type = "BIT" /\ in.from = "dabits_from_bits"
                THEN in.usage["BIT"] + in.usage["DABIT"]
                ELSE in.usage[in.type],
          buffer_size |-> in.buffer_size]
    ELSE IF in.type # "DABIT"
    THEN [n |-> in.buffer_size, buffer_size |-> 0]
    ELSE [n |-> 0, buffer_size |-> in.buffer_size]

\* batch_size<T>(type, buffer_size, fallback): res before assert(res > 0)
BaseMachine_batch_size(in) ==
    LET n_opts == BaseMachine_n_opts(in)
        m == BaseMachine_n(in)
    IN  IF m.n > 0 /\ ~(m.buffer_size > 0)
        THEN LET frac == IF m.n > n_opts THEN find_fraction(m.n, n_opts, 1) ELSE 0
             IN  IF frac > 0 THEN frac ELSE Min(m.n, n_opts)
        ELSE n_opts

InitBatch ==
    /\ machine = "base"
    /\ synchronized_prng = [p \in Parties |-> PRNG_SetSeed(0)]
    /\ local_prng = [p \in Parties |-> PRNG_SetSeed(0)]
    /\ proto = [p \in Parties |-> PPMLACProtocol_new]
    /\ prep = [p \in Parties |-> NoPrep]
    /\ fake = FakeProtocol_new
    /\ output = [res |-> 0]
    /\ input = [p \in Parties |-> NoInput]
    /\ chan = NoChan
    /\ script \in BatchInputs
    /\ idx = [p \in Parties |-> 0]
    /\ phase = [p \in Parties |-> "idle"]
    /\ status = [p \in Parties |-> "ok"]
    /\ hist = [p \in Parties |-> NoHist]

\* one call of batch_size; assert(res > 0) ends the program if it fails
CallBatchSize ==
    /\ phase[0] = "idle"
    /\ output' = [res |-> BaseMachine_batch_size(script)]
    /\ status' = [status EXCEPT ![0] =
                     IF BaseMachine_batch_size(script) > 0 THEN "ok" ELSE "error"]
    /\ phase' = [phase EXCEPT ![0] = "done"]
    /\ UNCHANGED <<machine, synchronized_prng, local_prng, proto, prep, fake,
                   input, chan, script, idx, hist>>

NextBatch == CallBatchSize

SpecBatch == InitBatch /\ [][NextBatch]_vars

\* some i in 1..10 has ceil(n / i) <= n_opts
HasFraction(n, n_opts) ==
    \E i \in 1 .. 10 : \E q \in 1 .. n_opts : q * i >= n

\* ceil(n / i) for the smallest such i
FirstFraction(n, n_opts) ==
    LET i == CHOOSE i \in 1 .. 10 :
                /\ \E q \in 1 .. n_opts : q * i >= n
                /\ \A j \in 1 .. i - 1 : \A q \in 1 .. n_opts : q * j < n
    IN  CHOOSE q \in 1 .. n : q * i >= n /\ (q - 1) * i < n

\* what the claim says batch_size returns for usage n and the limit n_opts
StatedBatch(n, n_opts) ==
    IF n <= n_opts THEN n
    ELSE IF HasFraction(n, n_opts) THEN FirstFraction(n, n_opts)
    ELSE n_opts

\* batch_size was called with no explicit buffer size and a loaded program
NoExplicitSize ==
    /\ phase[0] = "done"
    /\ script.buffer_size <= 0
    /\ script.has_program

\* C28 as stated: with no explicit buffer size and a program that declares
\* usage n > 0 of the item kind, batch_size returns n if n <= n_opts, else
\* ceil(n/i) for the smallest i in 1..10 with ceil(n/i) <= n_opts, else
\* n_opts, where n_opts is the fallback if positive and else the configured
\* default batch size; the result is in 1..n_opts.
C28_BatchSizeStated ==
    (NoExplicitSize /\ script.usage[script.type] > 0) =>
        LET n == script.usage[script.type]
            n_opts == IF script.fallback > 0 THEN script.fallback
                      ELSE script.batch_size
        IN  /\ output.res = StatedBatch(n, n_opts)
            /\ output.res \in 1 .. n_opts

\* the usage that counts for the item kind: bits and daBits are counted
\* together when the preprocessing makes the one from the other
CountedUsage ==
    IF \/ script.type = "DABIT" /\ script.from = "bits_from_dabits"
       \/ script.type = "BIT" /\ script.from = "dabits_from_bits"
    THEN script.usage["BIT"] + script.usage["DABIT"]
    ELSE script.usage[script.type]

\* C28 as amended: as stated, with n the declared usage of the item kind,
\* bits and daBits counted together when one is made from the other, and
\* with the configured default batch size times T::default_length as
\* n_opts when there is no positive fallback.
C28_BatchSizeCounted ==
    (NoExplicitSize /\ CountedUsage > 0) =>
        LET n == CountedUsage
            n_opts == IF script.fallback > 0 THEN script.fallback
                      ELSE script.batch_size * script.default_length
        IN  /\ output.res = StatedBatch(n, n_opts)
            /\ output.res \in 1 .. n_opts

\* batch_size has returned a fraction of the usage that is neither the
\* usage nor the limit
C28_Witness ==
    /\ NoExplicitSize
    /\ CountedUsage > script.fallback
    /\ script.fallback > 0
    /\ output.res # script.fallback
    /\ output.res # CountedUsage
    /\ output.res > 1

(***************************************************************************)
(* BaseMachine::bucket_size, src/Processor/BaseMachine.cpp                 *)
(***************************************************************************)
\* the largest bucket size the loop tries
MAX_BUCKET == 5

\* ShuffleSacrifice(B).minimum_n_outputs(), one table per behaviour: the
\* count does not grow with the bucket size
MinimumOutputs ==
    {m \in [1 .. MAX_BUCKET -> 0 .. MaxOutputs] :
        \A B \in 1 .. MAX_BUCKET - 1 : m[B + 1] <= m[B]}

RECURSIVE bucket_loop_greater(_, _, _, _)
bucket_loop_greater(res, B, usage, m) ==
    IF B > MAX_BUCKET THEN res
    ELSE IF 10 * m[B] > 9 * usage THEN res
    ELSE bucket_loop_greater(B, B + 1, usage, m)

\* for (int B = res; B <= 5; B++): break at the first B whose minimum
\* output count is below usage * .9, else res = B
RECURSIVE bucket_loop(_, _, _, _)
bucket_loop(res, B, usage, m) ==
    IF B > MAX_BUCKET THEN res
    ELSE IF 10 * m[B] < 9 * usage THEN res
    ELSE bucket_loop(B, B + 1, usage, m)

\* bucket_size(usage) with OnlineOptions bucket_size = configured
BaseMachine_bucket_size(usage, configured, m) ==
    IF usage # 0 THEN bucket_loop(configured, configured, usage, m)
    ELSE configured

InitBucket ==
    /\ machine = "base"
    /\ synchronized_prng = [p \in Parties |-> PRNG_SetSeed(0)]
    /\ local_prng = [p \in Parties |-> PRNG_SetSeed(0)]
    /\ proto = [p \in Parties |-> PPMLACProtocol_new]
    /\ prep = [p \in Parties |-> NoPrep]
    /\ fake = FakeProtocol_new
    /\ output = <<>>
    /\ input = [p \in Parties |-> NoInput]
    /\ chan = NoChan
    /\ \E b \in 1 .. MaxBucket, m \in MinimumOutputs :
           script = [bucket_size |-> b, minimum_n_outputs |-> m]
    /\ idx = [p \in Parties |-> 0]
    /\ phase = [p \in Parties |-> "idle"]
    /\ status = [p \in Parties |-> "ok"]
    /\ hist = [p \in Parties |-> NoHist]

\* one call bucket_size(usage); output keeps what each call returned
CallBucketSize(usage) ==
    /\ Len(output) < MaxRounds
    /\ output' = Append(output,
           [usage |-> usage,
            res |-> BaseMachine_bucket_size(usage, script.bucket_size,
                                            script.minimum_n_outputs)])
    /\ UNCHANGED <<machine, synchronized_prng, local_prng, proto, prep, fake,
                   input, chan, script, idx, phase, status, hist>>

NextBucket == \E usage \in 0 .. MaxUsage : CallBucketSize(usage)

SpecBucket == InitBucket /\ [][NextBucket]_vars

NoInCallHist == [calls |-> 0, last |-> <<"new", 0>>, values |-> <<>>,
                 queued |-> <<>>, sent |-> <<>>]

InitInCalls ==
    /\ machine = "ppmlac"
    /\ LET seed == PRNG_get_octets(PPMLACPrep_basic_setup)
       IN  /\ synchronized_prng = [p \in Parties |-> seed.prng]
           /\ local_prng = [p \in Parties |-> PRNG_SetSeed(seed.val)]
    /\ proto = [p \in Parties |-> PPMLACProtocol_new]
    /\ prep = [p \in Parties |-> NoPrep]
    /\ fake = FakeProtocol_new
    /\ output = [p \in Parties |-> NoOutput]
    /\ input = [p \in Parties |-> NoInput]
    /\ chan = NoChan
    /\ script = <<>>
    /\ idx = [p \in Parties |-> 0]
    /\ phase = [p \in Parties |-> "idle"]
    /\ status = [p \in Parties |-> "ok"]
    /\ hist = [p \in Parties |-> NoInCallHist]

\* party p is between two calls and may make another
InCallFree(p) ==
    /\ phase[p] = "idle"
    /\ hist[p].calls < MaxCalls

\* PPMLACInput::reset(player)
InCallReset(p, player) ==
    /\ InCallFree(p)
    /\ input' = [input EXCEPT ![p] = PPMLACInput_reset(@, player)]
    /\ hist' = [hist EXCEPT ![p].calls = @ + 1,
                            ![p].last = <<"reset", player>>,
                            ![p].queued = IF player = p THEN <<>> ELSE @]
    /\ UNCHANGED <<machine, synchronized_prng, local_prng, proto, prep, fake,
                   output, chan, script, idx, phase, status>>

\* PPMLACInput::add_mine(input)
InCallAddMine(p, v) ==
    /\ InCallFree(p)
    /\ LET r == PPMLACInput_add_mine(input[p], p, v, local_prng[p])
       IN  /\ input' = [input EXCEPT ![p] = r.inp]
           /\ local_prng' = [local_prng EXCEPT ![p] = r.g]
    /\ hist' = [hist EXCEPT ![p].calls = @ + 1,
                            ![p].last = <<"add_mine", p>>,
                            ![p].values = Append(@, v),
                            ![p].queued = Append(@, Len(hist[p].values) + 1),
                            ![p].sent = Append(@, 0)]
    /\ UNCHANGED <<machine, synchronized_prng, proto, prep, fake, output, chan,
                   script, idx, phase, status>>

\* the record of one send_mine: every queued serial was carried once more
SentOnceMore(h, msgs) ==
    IF msgs = <<>> THEN h
    ELSE [h EXCEPT !.sent = [k \in 1 .. Len(h.sent) |->
                                IF \E j \in 1 .. Len(h.queued) : h.queued[j] = k
                                THEN h.sent[k] + 1 ELSE h.sent[k]]]

\* PPMLACInput::exchange() up to P.receive_player: party 0 sends its masked
\* values if it has any, party 1 sends nothing yet
InCallExchangeEnter(p) ==
    /\ InCallFree(p)
    /\ LET msgs == IF p = 0 THEN PPMLACInput_send_mine(input[p], p) ELSE <<>>
       IN  /\ chan' = [chan EXCEPT ![<<p, Other(p)>>] = @ \o msgs]
           /\ hist' = [hist EXCEPT ![p] =
                          [SentOnceMore(@, msgs) EXCEPT
                              !.calls = @ + 1, !.last = <<"exchange", p>>]]
    /\ phase' = [phase EXCEPT ![p] = "recv"]
    /\ UNCHANGED <<machine, synchronized_prng, local_prng, proto, prep, fake,
                   output, input, script, idx, status>>

\* PPMLACInput::exchange() from P.receive_player on: the message is
\* buffered for the peer; party 1 then sends its masked values if it has any
InCallExchangeReceive(p) ==
    /\ phase[p] = "recv"
    /\ chan[<<Other(p), p>>] # <<>>
    /\ LET msgs == IF p = 1 THEN PPMLACInput_send_mine(input[p], p) ELSE <<>>
       IN  /\ chan' = [chan EXCEPT ![<<Other(p), p>>] = Tail(@),
                                   ![<<p, Other(p)>>] = @ \o msgs]
           /\ hist' = [hist EXCEPT ![p] = SentOnceMore(@, msgs)]
    /\ input' = [input EXCEPT ![p] =
                    PPMLACInput_buffer(@, Other(p), Head(chan[<<Other(p), p>>]))]
    /\ phase' = [phase EXCEPT ![p] = "idle"]
    /\ UNCHANGED <<machine, synchronized_prng, local_prng, proto, prep, fake,
                   output, script, idx, status>>

NextInCalls ==
    \/ \E p \in Parties : \E player \in Parties : InCallReset(p, player)
    \/ \E p \in Parties : \E v \in NextShares(hist[p].values) : InCallAddMine(p, v)
    \/ \E p \in Parties : InCallExchangeEnter(p)
    \/ \E p \in Parties : InCallExchangeReceive(p)

SpecInCalls == InitInCalls /\ [][NextInCalls]_vars

\* C31: under any sequence of reset, add_mine and exchange calls, the masked
\* value of a private input is carried by the message of one exchange only:
\* no later exchange sends it again.
C31_MaskedValueSentOnce ==
    \A p \in Parties : \A k \in 1 .. Len(hist[p].sent) : hist[p].sent[k] <= 1

\* C32: reset(player) leaves the share buffer and the masked-value buffer
\* keyed by that player empty and changes no buffer keyed by another player
\* (nor any buffered input stream).
C32_ResetFrame ==
    [][\A p \in Parties : \A player \in Parties :
          (hist'[p].calls = hist[p].calls + 1 /\ hist'[p].last = <<"reset", player>>)
              => /\ input'[p].my_shares[player] = <<>>
                 /\ input'[p].masked_values[player] = <<>>
                 /\ \A q \in Parties \ {player} :
                       /\ input'[p].my_shares[q] = input[p].my_shares[q]
                       /\ input'[p].masked_values[q] = input[p].masked_values[q]
                 /\ input'[p].buffered_input_streams = input[p].buffered_input_streams]_vars

\* party 0 has reset the buffers keyed by player 1 while its own buffers held
\* an input, after it had reset its own buffers once and added again
C32_Witness ==
    /\ hist[0].last = <<"reset", 1>>
    /\ Len(hist[0].values) = 2
    /\ Len(input[0].my_shares[0]) = 1
    /\ Len(input[0].masked_values[0]) = 1
    /\ input[0].my_shares[1] = <<>>

\* openings whose shares are fixed by their place in the batch; a party
\* blocked in P.receive_player returns once the peer's message is in the
\* channel
NextOutLive ==
    \/ \E p \in Parties : OutInitOpen(p)
    \/ \E p \in Parties : OutPrepareOpen(p, Len(output[p].secrets) % PRIME)
    \/ \E p \in Parties : OutExchangeSend(p)
    \/ \E p \in Parties : OutExchangeReceive(p)

SpecOutLive ==
    /\ InitOut
    /\ [][NextOutLive]_vars
    /\ \A p \in Parties : WF_vars(OutExchangeReceive(p))

\* both parties have called exchange for the k-th time, with the same number
\* of queued shares
BothCalled(k) ==
    /\ \A p \in Parties : Len(hist[p].batches) >= k
    /\ Len(hist[0].batches[k]) = Len(hist[1].batches[k])

\* the k-th exchange has returned at both parties
BothReturned(k) ==
    \A p \in Parties : hist[p].done >= k /\ (hist[p].done = k => status[p] = "ok")

\* C33: whenever both parties have called exchange with the same number of
\* queued shares, the exchange completes at both: each has sent before it
\* receives, so neither waits for the other's receive.
C33_ExchangeCompletes ==
    \A k \in 1 .. MaxRounds : BothCalled(k) ~> BothReturned(k)

\* both parties have completed two exchanges of equal, non-zero size
C33_Witness ==
    /\ \A p \in Parties : hist[p].done = 2 /\ status[p] = "ok" /\ phase[p] = "queue"
    /\ \A k \in 1 .. 2 : BothCalled(k) /\ Len(hist[0].batches[k]) >= 1

(***************************************************************************)
(* Sharing of a public constant: PPMLACShare::constant, SemiShare::constant *)
(* (src/Protocols/SemiShare.h) and Replicated::assign                      *)
(* (src/Protocols/Replicated.h)                                            *)
(***************************************************************************)
PPMLACShare_constant_all(constant, my_num) == constant

\* PPMLACShare::constant(constant, my_num, mac_key)
PPMLACShare_constant(constant, my_num) ==
    IF my_num = 0 THEN constant ELSE 0

\* SemiShare::constant(other, my_num): {} is the zero share
SemiShare_constant(other, my_num) ==
    IF my_num = 0 THEN other ELSE 0

\* T::vector_length of the replicated share
vector_length == 2

\* FixedVec::assign_zero
FixedVec_assign_zero(share) == [i \in DOMAIN share |-> 0]

\* Replicated::assign(share, value, my_num); components are counted from 0
Replicated_assign(share, value, my_num) ==
    IF my_num < 2
    THEN [FixedVec_assign_zero(share) EXCEPT ![my_num] = value]
    ELSE FixedVec_assign_zero(share)

\* no constant shared yet; the replicated share holds what was there before
NoConst == [ppmlac |-> <<>>, semi |-> <<>>,
            rep |-> [i \in 0 .. vector_length - 1 |-> 1], assigned |-> FALSE]

InitConst ==
    /\ machine = "base"
    /\ \E n \in 2 .. MaxPlayers :
          /\ synchronized_prng = [p \in Players(n) |-> PRNG_SetSeed(0)]
          /\ local_prng = [p \in Players(n) |-> PRNG_SetSeed(0)]
          /\ proto = [p \in Players(n) |-> PPMLACProtocol_new]
          /\ prep = [p \in Players(n) |-> NoPrep]
          /\ output = [p \in Players(n) |-> NoConst]
          /\ input = [p \in Players(n) |-> NoInput]
          /\ chan = NoChan
          /\ idx = [p \in Players(n) |-> 0]
          /\ phase = [p \in Players(n) |-> "idle"]
          /\ status = [p \in Players(n) |-> "ok"]
          /\ hist = [p \in Players(n) |-> NoHist]
    /\ fake = FakeProtocol_new
    /\ script \in Field

\* party p calls PPMLACShare::constant(c, my_num, key)
ConstPPMLAC(p) ==
    /\ output[p].ppmlac = <<>>
    /\ output' = [output EXCEPT ![p].ppmlac = <<PPMLACShare_constant(script, p)>>]
    /\ UNCHANGED <<machine, synchronized_prng, local_prng, proto, prep, fake,
                   input, chan, script, idx, phase, status, hist>>

\* party p calls SemiShare::constant(c, my_num)
ConstSemi(p) ==
    /\ output[p].semi = <<>>
    /\ output' = [output EXCEPT ![p].semi = <<SemiShare_constant(script, p)>>]
    /\ UNCHANGED <<machine, synchronized_prng, local_prng, proto, prep, fake,
                   input, chan, script, idx, phase, status, hist>>

\* party p calls Replicated::assign(share, c, my_num)
ConstReplicated(p) ==
    /\ ~output[p].assigned
    /\ output' = [output EXCEPT ![p].rep = Replicated_assign(@, script, p),
                                ![p].assigned = TRUE]
    /\ UNCHANGED <<machine, synchronized_prng, local_prng, proto, prep, fake,
                   input, chan, script, idx, phase, status, hist>>

NextConst ==
    \/ \E p \in DOMAIN output : ConstPPMLAC(p)
    \/ \E p \in DOMAIN output : ConstSemi(p)
    \/ \E p \in DOMAIN output : ConstReplicated(p)

SpecConst == InitConst /\ [][NextConst]_vars

\* the sum in the field of f[p] over the parties 0 .. n - 1
RECURSIVE FieldSum(_, _)
FieldSum(f, n) == IF n = 0 THEN 0 ELSE FAdd(FieldSum(f, n - 1), f[n - 1])

\* C34: once every party has shared the constant c, the PPMLACShare shares
\* and the SemiShare shares each sum to c over all parties, party 0 holding c
\* and every other party 0; Replicated::assign leaves component my_num equal
\* to c at parties 0 and 1 and every other component 0.
C34_ConstantReconstructs ==
    LET n == num_players
    IN  /\ (\A p \in Players(n) : output[p].ppmlac # <<>>) =>
               /\ FieldSum([p \in Players(n) |-> output[p].ppmlac[1]], n) = script
               /\ \A p \in Players(n) :
                     output[p].ppmlac[1] = IF p = 0 THEN script ELSE 0
        /\ (\A p \in Players(n) : output[p].semi # <<>>) =>
               /\ FieldSum([p \in Players(n) |-> output[p].semi[1]], n) = script
               /\ \A p \in Players(n) :
                     output[p].semi[1] = IF p = 0 THEN script ELSE 0
        /\ \A p \in Players(n) : output[p].assigned =>
               \A i \in 0 .. vector_length - 1 :
                   output[p].rep[i] = IF i = p THEN script ELSE 0

\* three parties have shared the constant 2 in all three ways
C34_Witness ==
    /\ num_players = 3
    /\ script = 2
    /\ \A p \in Players(3) :
          output[p].ppmlac # <<>> /\ output[p].semi # <<>> /\ output[p].assigned
    /\ FieldSum([p \in Players(3) |-> output[p].ppmlac[1]], 3) = 2

(***************************************************************************)
(* PPMLACShare operators, src/Protocols/SemiShare.h                        *)
(***************************************************************************)
\* the local operations on shares
LinearOps == {"plus", "negate", "minus", "plus_assign", "minus_assign", "times"}

\* operator+(other)
PPMLACShare_plus(value, other) == FAdd(value, other)

\* operator-()
PPMLACShare_negate(value) == FSub(0, value)

PPMLACShare_minus_swapped(value, other) == FSub(other, value)

\* operator-(other)
PPMLACShare_minus(value, other) == FSub(value, other)

\* operator+=(other): the value of *this afterwards
PPMLACShare_plus_assign(value, other) == FAdd(value, other)

\* operator-=(other): the value of *this afterwards
PPMLACShare_minus_assign(value, other) == FSub(value, other)

\* operator*(clear other)
PPMLACShare_times(value, other) == FMul(value, other)

\* each party's shares x[p], y[p] of two secrets, a public value k and the
\* operation both parties apply
LinearInputs ==
    {[x |-> x, y |-> y, k |-> k, op |-> op] :
        x \in [Parties -> Field], y \in [Parties -> Field], k \in Field,
        op \in LinearOps}

InitLinear ==
    /\ machine = "ppmlac"
    /\ synchronized_prng = [p \in Parties |-> PRNG_SetSeed(0)]
    /\ local_prng = [p \in Parties |-> PRNG_SetSeed(0)]
    /\ proto = [p \in Parties |-> PPMLACProtocol_new]
    /\ prep = [p \in Parties |-> NoPrep]
    /\ fake = FakeProtocol_new
    /\ output = [p \in Parties |-> <<>>]
    /\ input = [p \in Parties |-> NoInput]
    /\ chan = NoChan
    /\ script \in LinearInputs
    /\ idx = [p \in Parties |-> 0]
    /\ phase = [p \in Parties |-> "idle"]
    /\ status = [p \in Parties |-> "ok"]
    /\ hist = [p \in Parties |-> NoHist]

\* party p applies the operation op to its shares, with the result res
LinearApply(p, op, res) ==
    /\ script.op = op
    /\ output[p] = <<>>
    /\ output' = [output EXCEPT ![p] = <<res>>]
    /\ UNCHANGED <<machine, synchronized_prng, local_prng, proto, prep, fake,
                   input, chan, script, idx, phase, status, hist>>

LinearPlus(p) == LinearApply(p, "plus", PPMLACShare_plus(script.x[p], script.y[p]))

LinearNegate(p) == LinearApply(p, "negate", PPMLACShare_negate(script.x[p]))

LinearMinus(p) == LinearApply(p, "minus", PPMLACShare_minus(script.x[p], script.y[p]))

LinearPlusAssign(p) ==
    LinearApply(p, "plus_assign", PPMLACShare_plus_assign(script.x[p], script.y[p]))

LinearMinusAssign(p) ==
    LinearApply(p, "minus_assign", PPMLACShare_minus_assign(script.x[p], script.y[p]))

LinearTimes(p) == LinearApply(p, "times", PPMLACShare_times(script.x[p], script.k))

NextLinear ==
    \/ \E p \in Parties : LinearPlus(p)
    \/ \E p \in Parties : LinearNegate(p)
    \/ \E p \in Parties : LinearMinus(p)
    \/ \E p \in Parties : LinearPlusAssign(p)
    \/ \E p \in Parties : LinearMinusAssign(p)
    \/ \E p \in Parties : LinearTimes(p)

SpecLinear == InitLinear /\ [][NextLinear]_vars

\* the secret that the shares f[0], f[1] reconstruct to
Reconstructed(f) == (f[0] + f[1]) % PRIME

\* the operation on the secrets a and b in the field, with the public k
OnSecrets(op, a, b, k) ==
    CASE op \in {"plus", "plus_assign"} -> (a + b) % PRIME
      [] op \in {"minus", "minus_assign"} -> (a + PRIME - b) % PRIME
      [] op = "negate" -> (PRIME - a) % PRIME
      [] op = "times" -> (a * k) % PRIME

\* C35: when both parties have applied +, binary -, unary -, +=, -= or the
\* multiplication by a public value to their shares, the results sum to the
\* same operation applied to the reconstructed secrets.
C35_OperatorsLinear ==
    (\A p \in Parties : output[p] # <<>>) =>
        Reconstructed([p \in Parties |-> output[p][1]])
            = OnSecrets(script.op, Reconstructed(script.x),
                        Reconstructed(script.y), script.k)

\* both parties have subtracted shares of different secrets, neither secret
\* being held by one party alone
C35_Witness ==
    /\ script.op = "minus"
    /\ \A p \in Parties : output[p] # <<>> /\ script.x[p] # 0 /\ script.y[p] # 0
    /\ Reconstructed(script.x) # Reconstructed(script.y)
    /\ Reconstructed([p \in Parties |-> output[p][1]]) # 0

(***************************************************************************)
(* FakeProtocol dot products, src/Protocols/SemiShare.h                    *)
(***************************************************************************)
\* what is recorded of the calls: all pairs given to prepare_dotprod, the
\* pairs since the last next_dotprod or init_dotprod, the pair lists closed
\* by next_dotprod since the last init_dotprod, the values returned since
\* then, and how often each operation was called
NoDotHist == [pairs |-> <<>>, open |-> <<>>, closed |-> <<>>, returned |-> <<>>,
              inits |-> 0, exchanges |-> 0, last |-> "new"]

InitDot ==
    /\ machine = "emulate"
    /\ synchronized_prng = [p \in Parties |-> PRNG_SetSeed(0)]
    /\ local_prng = [p \in Parties |-> PRNG_SetSeed(0)]
    /\ proto = [p \in Parties |-> PPMLACProtocol_new]
    /\ prep = [p \in Parties |-> NoPrep]
    /\ fake = FakeProtocol_new
    /\ output = [p \in Parties |-> NoOutput]
    /\ input = [p \in Parties |-> NoInput]
    /\ chan = NoChan
    /\ script = <<>>
    /\ idx = [p \in Parties |-> 0]
    /\ phase = [p \in Parties |-> "idle"]
    /\ status = [p \in Parties |-> "ok"]
    /\ hist = [p \in Parties |-> NoDotHist]

\* FakeProtocol::init_dotprod()
DotInit ==
    /\ hist[0].inits <= MaxExtra
    /\ fake' = FakeProtocol_init_dotprod(fake)
    /\ hist' = [hist EXCEPT ![0].inits = @ + 1, ![0].open = <<>>,
                            ![0].closed = <<>>, ![0].returned = <<>>,
                            ![0].last = "init_dotprod"]
    /\ UNCHANGED <<machine, synchronized_prng, local_prng, proto, prep, output,
                   input, chan, script, idx, phase, status>>

\* FakeProtocol::prepare_dotprod(x, y)
DotPrepare(x, y) ==
    /\ hist[0].inits > 0
    /\ Len(hist[0].pairs) <= MaxMuls
    /\ fake' = FakeProtocol_prepare_dotprod(fake, x, y)
    /\ hist' = [hist EXCEPT ![0].pairs = Append(@, <<x, y>>),
                            ![0].open = Append(@, <<x, y>>),
                            ![0].last = "prepare_dotprod"]
    /\ UNCHANGED <<machine, synchronized_prng, local_prng, proto, prep, output,
                   input, chan, script, idx, phase, status>>

\* FakeProtocol::next_dotprod()
DotNext ==
    /\ hist[0].inits > 0
    /\ Len(hist[0].closed) < MaxRounds
    /\ fake' = FakeProtocol_next_dotprod(fake)
    /\ hist' = [hist EXCEPT ![0].closed = Append(@, hist[0].open),
                            ![0].open = <<>>,
                            ![0].last = "next_dotprod"]
    /\ UNCHANGED <<machine, synchronized_prng, local_prng, proto, prep, output,
                   input, chan, script, idx, phase, status>>

\* FakeProtocol::exchange()
DotExchange ==
    /\ hist[0].exchanges <= MaxExtra
    /\ fake' = FakeProtocol_exchange(fake)
    /\ hist' = [hist EXCEPT ![0].exchanges = @ + 1, ![0].last = "exchange"]
    /\ UNCHANGED <<machine, synchronized_prng, local_prng, proto, prep, output,
                   input, chan, script, idx, phase, status>>

\* FakeProtocol::finalize_dotprod(n), with a result left to return
DotFinalize ==
    /\ hist[0].inits > 0
    /\ fake.results.i < Len(fake.results.v)
    /\ LET r == FakeProtocol_finalize_dotprod(fake)
       IN  /\ fake' = r.inst
           /\ hist' = [hist EXCEPT ![0].returned = Append(@, r.res),
                                   ![0].last = "finalize_dotprod"]
    /\ UNCHANGED <<machine, synchronized_prng, local_prng, proto, prep, output,
                   input, chan, script, idx, phase, status>>

NextDot ==
    \/ DotInit
    \/ \E o \in NextOperands(hist[0].pairs) : DotPrepare(o[1], o[2])
    \/ DotNext
    \/ DotExchange
    \/ DotFinalize

SpecDot == InitDot /\ [][NextDot]_vars

\* the sum of x * y over the pairs of a list, in the field
RECURSIVE DotOf(_)
DotOf(pairs) ==
    IF pairs = <<>> THEN 0
    ELSE (Head(pairs)[1] * Head(pairs)[2] + DotOf(Tail(pairs))) % PRIME

\* C36: after init_dotprod, next_dotprod queues exactly one result, the sum
\* of x_i * y_i of the prepare_dotprod calls since the previous next_dotprod
\* or init_dotprod, and leaves the accumulator zero; finalize_dotprod returns
\* the queued results in order; exchange changes no protocol state and
\* sends nothing.
C36_DotProduct ==
    [][/\ hist'[0].last = "next_dotprod" =>
             /\ fake'.results.v = Append(fake.results.v, DotOf(hist[0].open))
             /\ fake'.dot_prod = 0
       /\ hist'[0].inits > 0 =>
             /\ Len(fake'.results.v) = Len(hist'[0].closed)
             /\ \A k \in 1 .. Len(hist'[0].returned) :
                   hist'[0].returned[k] = DotOf(hist'[0].closed[k])
       /\ hist'[0].exchanges # hist[0].exchanges =>
             fake' = fake /\ chan' = chan]_vars

\* two dot products were queued and returned in order, the first of them
\* non-zero and the second over two pairs
C36_Witness ==
    /\ Len(hist[0].returned) = 2
    /\ Len(hist[0].closed[2]) = 2
    /\ hist[0].returned[1] # 0
    /\ hist[0].returned[1] # hist[0].returned[2]
    /\ hist[0].exchanges > 0
    /\ fake.dot_prod = 0

(***************************************************************************)
(* The members PPMLACProtocol inherits from ProtocolBase without           *)
(* overriding them, src/Protocols/Replicated.h                             *)
(***************************************************************************)
\* trunc_pr, randoms, cisc, unsplit and buffer_random of ProtocolBase
Unimplemented == {"trunc_pr", "randoms", "cisc", "unsplit", "buffer_random"}

ProtocolBase_not_implemented_silent(inst, member) == [err |-> FALSE, inst |-> inst]

\* the body of each of them: a throw statement and nothing else
ProtocolBase_not_implemented(inst, member) == [err |-> TRUE, inst |-> inst]

\* party p calls one of these members
CallUnimplemented(p, member) ==
    /\ status[p] = "ok"
    /\ hist[p].calls < MaxCalls
    /\ LET r == ProtocolBase_not_implemented(proto[p], member)
       IN  /\ proto' = [proto EXCEPT ![p] = r.inst]
           /\ status' = [status EXCEPT ![p] = IF r.err THEN "error" ELSE "ok"]
    /\ hist' = [hist EXCEPT ![p] = Called(p, "not_implemented")]
    /\ UNCHANGED <<machine, synchronized_prng, local_prng, prep, fake, output,
                   input, chan, script, idx, phase>>

\* the calls that queue, clear and exchange multiplications, and the calls of
\* the members that are not implemented
NextCaps ==
    \/ \E p \in Parties : CallInitMul(p)
    \/ \E p \in Parties : \E o \in CallOperands(p) : CallPrepareMul(p, o[1], o[2])
    \/ CallExchangeAlice
    \/ CallExchangeBob
    \/ \E p \in Parties : \E member \in Unimplemented : CallUnimplemented(p, member)

SpecCaps == InitCalls /\ [][NextCaps]_vars

\* C37: a call of trunc_pr, randoms, cisc, unsplit or buffer_random on the
\* two-party protocol raises an error at once, changes no protocol state
\* and sends no message.
C37_UnimplementedFails ==
    [][\A p \in Parties :
          Calls(p, "not_implemented")
              => /\ status'[p] = "error"
                 /\ proto' = proto
                 /\ chan' = chan
                 /\ synchronized_prng' = synchronized_prng
                 /\ local_prng' = local_prng]_vars

\* party 1 has failed in such a call while it had a multiplication queued
\* and a message of party 0 was waiting for it
C37_Witness ==
    /\ status[1] = "error"
    /\ hist[1].last = "not_implemented"
    /\ proto[1].x_vec # <<>>
    /\ chan[<<0, 1>>] # <<>>

(***************************************************************************)
(* HemiPrep::get_multipliers and basic_setup called from several threads   *)
(* of one process, src/unnamed/part_002: pairwise_machine and lock are     *)
(* static, multipliers belongs to the HemiPrep object of the thread.       *)
(***************************************************************************)
\* pairwise_machine == 0, lock free, and enc_alphas of the machine (its
\* size; it has none before the machine exists)
NoPairwise == [pairwise_machine |-> 0, enc_alphas |-> 0, lock |-> 0]

\* basic_setup(P): assert(pairwise_machine == 0), then the new machine
HemiPrep_basic_setup(st) ==
    IF st.pairwise_machine # 0 THEN [err |-> TRUE, st |-> st]
    ELSE [err |-> FALSE, st |-> [st EXCEPT !.pairwise_machine = 1, !.enc_alphas = 0]]

\* pairwise_machine == 0 or pairwise_machine->enc_alphas.empty()
HemiPrep_needs_setup(st) == st.pairwise_machine = 0 \/ st.enc_alphas = 0

InitMultipliers ==
    /\ machine = "hemi"
    /\ synchronized_prng = [p \in Parties |-> PRNG_SetSeed(0)]
    /\ local_prng = [p \in Parties |-> PRNG_SetSeed(0)]
    /\ proto = [t \in Threads |-> [multipliers |-> 0]]
    /\ prep = NoPairwise
    /\ fake = FakeProtocol_new
    /\ output = [p \in Parties |-> NoOutput]
    /\ input = [p \in Parties |-> NoInput]
    /\ chan = NoChan
    /\ script \in 2 .. MaxPlayers
    /\ idx = [t \in Threads |-> 0]
    /\ phase = [t \in Threads |-> "idle"]
    /\ status = [t \in Threads |-> "ok"]
    /\ hist = [setups |-> 0, keygens |-> 0]

GmLock_no_wait(t) ==
    /\ status[t] = "ok"
    /\ phase[t] = "idle"
    /\ idx[t] < MaxRounds
    /\ prep' = [prep EXCEPT !.lock = t]
    /\ phase' = [phase EXCEPT ![t] = "locked"]
    /\ UNCHANGED <<machine, synchronized_prng, local_prng, proto, fake, output,
                   input, chan, script, idx, status, hist>>

\* get_multipliers() up to lock.lock(), which waits until the lock is free
GmLock(t) ==
    /\ status[t] = "ok"
    /\ phase[t] = "idle"
    /\ idx[t] < MaxRounds
    /\ prep.lock = 0
    /\ prep' = [prep EXCEPT !.lock = t]
    /\ phase' = [phase EXCEPT ![t] = "locked"]
    /\ UNCHANGED <<machine, synchronized_prng, local_prng, proto, fake, output,
                   input, chan, script, idx, status, hist>>

\* the test of the if statement
GmTest(t) ==
    /\ status[t] = "ok"
    /\ phase[t] = "locked"
    /\ phase' = [phase EXCEPT ![t] =
                    IF HemiPrep_needs_setup(prep) THEN "setup" ELSE "unlock"]
    /\ UNCHANGED <<machine, synchronized_prng, local_prng, proto, prep, fake,
                   output, input, chan, script, idx, status, hist>>

\* if (pairwise_machine == 0) basic_setup(P): the test and the call
GmBasicSetup(t) ==
    /\ status[t] = "ok"
    /\ phase[t] = "setup"
    /\ phase' = [phase EXCEPT ![t] =
                    IF prep.pairwise_machine = 0 THEN "called" ELSE "keygen"]
    /\ UNCHANGED <<machine, synchronized_prng, local_prng, proto, prep, fake,
                   output, input, chan, script, idx, status, hist>>

\* the body of basic_setup; a failed assertion ends the thread
GmBasicSetupBody(t) ==
    /\ status[t] = "ok"
    /\ phase[t] = "called"
    /\ LET r == HemiPrep_basic_setup(prep)
       IN  /\ prep' = r.st
           /\ status' = [status EXCEPT ![t] = IF r.err THEN "error" ELSE "ok"]
           /\ hist' = IF r.err THEN hist ELSE [hist EXCEPT !.setups = @ + 1]
    /\ phase' = [phase EXCEPT ![t] = "keygen"]
    /\ UNCHANGED <<machine, synchronized_prng, local_prng, proto, fake, output,
                   input, chan, script, idx>>

\* covert_key_generation(P, *pairwise_machine, 1)
GmKeyGeneration(t) ==
    /\ status[t] = "ok"
    /\ phase[t] = "keygen"
    /\ hist' = [hist EXCEPT !.keygens = @ + 1]
    /\ phase' = [phase EXCEPT ![t] = "resize"]
    /\ UNCHANGED <<machine, synchronized_prng, local_prng, proto, prep, fake,
                   output, input, chan, script, idx, status>>

\* pairwise_machine->enc_alphas.resize(1, pairwise_machine->pk)
GmResize(t) ==
    /\ status[t] = "ok"
    /\ phase[t] = "resize"
    /\ prep' = [prep EXCEPT !.enc_alphas = 1]
    /\ phase' = [phase EXCEPT ![t] = "unlock"]
    /\ UNCHANGED <<machine, synchronized_prng, local_prng, proto, fake, output,
                   input, chan, script, idx, status, hist>>

\* lock.unlock()
GmUnlock(t) ==
    /\ status[t] = "ok"
    /\ phase[t] = "unlock"
    /\ prep' = [prep EXCEPT !.lock = 0]
    /\ phase' = [phase EXCEPT ![t] = "multipliers"]
    /\ UNCHANGED <<machine, synchronized_prng, local_prng, proto, fake, output,
                   input, chan, script, idx, status, hist>>

\* if (multipliers.empty()): one multiplier per other player; return
GmMultipliers(t) ==
    /\ status[t] = "ok"
    /\ phase[t] = "multipliers"
    /\ proto' = [proto EXCEPT ![t].multipliers = IF @ = 0 THEN script - 1 ELSE @]
    /\ idx' = [idx EXCEPT ![t] = @ + 1]
    /\ phase' = [phase EXCEPT ![t] = "idle"]
    /\ UNCHANGED <<machine, synchronized_prng, local_prng, prep, fake, output,
                   input, chan, script, status, hist>>

NextMultipliers ==
    \/ \E t \in Threads : GmLock(t)
    \/ \E t \in Threads : GmTest(t)
    \/ \E t \in Threads : GmBasicSetup(t)
    \/ \E t \in Threads : GmBasicSetupBody(t)
    \/ \E t \in Threads : GmKeyGeneration(t)
    \/ \E t \in Threads : GmResize(t)
    \/ \E t \in Threads : GmUnlock(t)
    \/ \E t \in Threads : GmMultipliers(t)

SpecMultipliers == InitMultipliers /\ [][NextMultipliers]_vars

\* C38: however the threads calling get_multipliers interleave, the shared
\* pairwise machine is set up at most once, covert key generation runs at
\* most once, and the assertion pairwise_machine == 0 never fails.
C38_SetupOnce ==
    /\ hist.setups <= 1
    /\ hist.keygens <= 1
    /\ \A t \in Threads : status[t] = "ok"

\* both threads have returned from get_multipliers, the second having
\* waited at the lock while the first was generating the keys
C38_Witness ==
    /\ \A t \in Threads : idx[t] >= 1 /\ proto[t].multipliers = script - 1
    /\ hist.setups = 1
    /\ hist.keygens = 1
    /\ prep.lock = 0
    /\ prep.enc_alphas = 1

(***************************************************************************)
(* Shifts of gfp_ and FixedVec, src/unnamed/part_004                       *)
(***************************************************************************)
RECURSIVE Pow2(_)
Pow2(i) == IF i = 0 THEN 1 ELSE 2 * Pow2(i - 1)

\* gfp_::operator<<(int i): the value times 2^i in the field
gfp_shl(x, i) == (x * Pow2(i)) % PRIME

\* gfp_::operator>>(int i): the representative in 0..p-1 shifted right
gfp_shr(x, i) == x \div Pow2(i)

\* gfp_::operator<<=(int i) { *this << i; return *this; }: the shifted value
\* is a temporary that is dropped
gfp_shl_assign(x, i) ==
    LET tmp == gfp_shl(x, i)
    IN  x

\* gfp_::operator>>=(int i) { *this >> i; return *this; }
gfp_shr_assign(x, i) ==
    LET tmp == gfp_shr(x, i)
    IN  x

\* FixedVec::operator<<(int i)
FixedVec_shl(v, i) == [j \in DOMAIN v |-> gfp_shl(v[j], i)]

\* FixedVec::operator>>(int i)
FixedVec_shr(v, i) == [j \in DOMAIN v |-> gfp_shr(v[j], i)]

\* FixedVec::operator<<=(int i): *this = *this << i
FixedVec_shl_assign(v, i) == FixedVec_shl(v, i)

\* FixedVec::operator>>=(int i): *this = *this >> i
FixedVec_shr_assign(v, i) == FixedVec_shr(v, i)

\* the last shift: the operator, the amount and the operand before it
NoShiftHist == [op |-> "none", i |-> 0, x |-> 0, v |-> <<0, 0>>, shifts |-> 0]

InitShift ==
    /\ machine = "base"
    /\ synchronized_prng = [p \in Parties |-> PRNG_SetSeed(0)]
    /\ local_prng = [p \in Parties |-> PRNG_SetSeed(0)]
    /\ proto = [p \in Parties |-> PPMLACProtocol_new]
    /\ prep = [p \in Parties |-> NoPrep]
    /\ fake = FakeProtocol_new
    /\ \E x \in Field, v \in [1 .. 2 -> Field] : output = [x |-> x, v |-> v]
    /\ input = [p \in Parties |-> NoInput]
    /\ chan = NoChan
    /\ script = <<>>
    /\ idx = [p \in Parties |-> 0]
    /\ phase = [p \in Parties |-> "idle"]
    /\ status = [p \in Parties |-> "ok"]
    /\ hist = NoShiftHist

\* one shift assignment: op on the field element or on the vector
Shifted(op, i, x, v) ==
    /\ hist.shifts < MaxRounds
    /\ output' = [x |-> x, v |-> v]
    /\ hist' = [op |-> op, i |-> i, x |-> output.x, v |-> output.v,
                shifts |-> hist.shifts + 1]
    /\ UNCHANGED <<machine, synchronized_prng, local_prng, proto, prep, fake,
                   input, chan, script, idx, phase, status>>

\* x <<= i
GfpShlAssign(i) == Shifted("gfp<<=", i, gfp_shl_assign(output.x, i), output.v)

\* x >>= i
GfpShrAssign(i) == Shifted("gfp>>=", i, gfp_shr_assign(output.x, i), output.v)

\* v <<= i
VecShlAssign(i) == Shifted("vec<<=", i, output.x, FixedVec_shl_assign(output.v, i))

\* v >>= i
VecShrAssign(i) == Shifted("vec>>=", i, output.x, FixedVec_shr_assign(output.v, i))

NextShift ==
    \/ \E i \in 0 .. MaxShift : GfpShlAssign(i)
    \/ \E i \in 0 .. MaxShift : GfpShrAssign(i)
    \/ \E i \in 0 .. MaxShift : VecShlAssign(i)
    \/ \E i \in 0 .. MaxShift : VecShrAssign(i)

SpecShift == InitShift /\ [][NextShift]_vars

\* C39: after x <<= i (x >>= i) the field element x holds the value that
\* x << i (x >> i) had before, as each component of a FixedVec does after
\* <<= and >>=.
C39_ShiftAssign ==
    /\ hist.op = "gfp<<=" => output.x = gfp_shl(hist.x, hist.i)
    /\ hist.op = "gfp>>=" => output.x = gfp_shr(hist.x, hist.i)
    /\ hist.op = "vec<<=" =>
          \A j \in 1 .. 2 : output.v[j] = gfp_shl(hist.v[j], hist.i)
    /\ hist.op = "vec>>=" =>
          \A j \in 1 .. 2 : output.v[j] = gfp_shr(hist.v[j], hist.i)

====
